---- MODULE Spec2Model ----
(***************************************************************************)
(* A model of the MAVLink protocol engine of aircast-mavlink: the CRC      *)
(* engine (core/crc.ts), the codec (core/codec.ts), the framer             *)
(* (core/frame.ts), the stream buffer (core/stream-buffer.ts), the message *)
(* serializer (core/message-serializer.ts) and the dialect parser          *)
(* (core/parser.ts).                                                       *)
(*                                                                         *)
(* Bytes are integers 0..255 and byte arrays are sequences; the source's   *)
(* 0-based offsets are kept and converted at the point of access (At,      *)
(* Slice).  JavaScript values are tagged records (Num, Str, Arr, Big) so   *)
(* that 0, 0n, '' and [] stay distinct.                                    *)
(***************************************************************************)
EXTENDS Integers, Sequences, FiniteSets, TLC

VARIABLES
    buffer,        \* StreamBuffer.buffer: the backing array
    bufferStart,   \* StreamBuffer.bufferStart
    bufferEnd,     \* StreamBuffer.bufferEnd
    registry,      \* DialectParser.registry: the three maps of the catalog
    wire,          \* bytes in flight on the link, not yet handed to parseBytes
    sent,          \* the segments put on the link, in order
    results,       \* the list returned by the last parseBytes call
    emitted,       \* every message returned by parseBytes so far, in order
    calls,         \* number of parseBytes calls made
    out            \* outcome of the last serializeMessage call

vars == <<buffer, bufferStart, bufferEnd, registry, wire, sent, results, emitted, calls, out>>

(***************************************************************************)
(* Byte arrays and bit operations                                          *)
(***************************************************************************)

\* data[i] of a Uint8Array, 0-based.
At(data, i) == data[i + 1]

Min(a, b) == IF a < b THEN a ELSE b
Max(a, b) == IF a > b THEN a ELSE b

\* Uint8Array.prototype.slice(from, to) / subarray(from, to), 0-based, end
\* exclusive, both ends clamped to the array.
Slice(data, from, to) == SubSeq(data, Min(from, Len(data)) + 1, Min(to, Len(data)))

\* subarray(from): the rest of the array
SliceFrom(data, from) == SubSeq(data, Min(from, Len(data)) + 1, Len(data))

Zeros(n) == [i \in 1..n |-> 0]

RECURSIVE BitXor(_, _)
BitXor(a, b) ==
    IF a = 0 THEN b
    ELSE IF b = 0 THEN a
    ELSE ((a + b) % 2) + 2 * BitXor(a \div 2, b \div 2)

RECURSIVE BitAnd(_, _)
BitAnd(a, b) ==
    IF a = 0 \/ b = 0 THEN 0
    ELSE ((a % 2) * (b % 2)) + 2 * BitAnd(a \div 2, b \div 2)

RECURSIVE BitOr(_, _)
BitOr(a, b) ==
    IF a = 0 THEN b
    ELSE IF b = 0 THEN a
    ELSE (IF (a % 2) + (b % 2) > 0 THEN 1 ELSE 0) + 2 * BitOr(a \div 2, b \div 2)

RECURSIVE Pow2(_)
Pow2(n) == IF n = 0 THEN 1 ELSE 2 * Pow2(n - 1)

(***************************************************************************)
(* CRC engine (core/crc.ts)                                                *)
(***************************************************************************)

X25_INIT_CRC == 65535

\* Mutant of CrcAccumulate: the top bit of the byte left out of the round
CrcAccumulateMutSevenBits(byte, crc) ==
    LET tmp1 == BitXor(byte % 128, BitAnd(crc, 255))
        tmp2 == BitAnd(BitXor(tmp1, tmp1 * 16), 255)
    IN  BitAnd(BitXor(BitXor(BitXor(crc \div 256, tmp2 * 256), tmp2 * 8), tmp2 \div 16), 65535)

\* One round of the MCRF4XX recurrence: the body of the loop of calculate.
CrcAccumulate(byte, crc) ==
    LET tmp1 == BitXor(byte, BitAnd(crc, 255))
        tmp2 == BitAnd(BitXor(tmp1, tmp1 * 16), 255)
    IN  BitAnd(BitXor(BitXor(BitXor(crc \div 256, tmp2 * 256), tmp2 * 8), tmp2 \div 16), 65535)

\* The for loop of calculate from index i on.  (crc is never negative: the
\* first test only makes TLC evaluate the running value at every round
\* instead of nesting the rounds.)
RECURSIVE CrcBytes(_, _, _)
CrcBytes(data, i, crc) ==
    IF crc < 0 \/ i >= Len(data) THEN crc
    ELSE CrcBytes(data, i + 1, CrcAccumulate(At(data, i), crc))

\* Mutant of Calculate: the round for CRC_EXTRA left out
CalculateMutSkipExtra(data, crcExtra) == CrcBytes(data, 0, X25_INIT_CRC)

\* MAVLinkCRC.calculate
Calculate(data, crcExtra) == CrcAccumulate(crcExtra, CrcBytes(data, 0, X25_INIT_CRC))

\* Mutant of Validate: every checksum accepted
ValidateMutAlwaysTrue(data, crcExtra, receivedChecksum) == TRUE

\* MAVLinkCRC.validate
Validate(data, crcExtra, receivedChecksum) ==
    Calculate(data, crcExtra) = receivedChecksum

\* Mutant of ValidateWithTable: an id outside the table passes
ValidateWithTableMutUnknownPasses(data, messageId, receivedChecksum, crcExtraTable) ==
    IF messageId \notin DOMAIN crcExtraTable THEN TRUE
    ELSE Validate(data, crcExtraTable[messageId], receivedChecksum)

\* MAVLinkCRC.validateWithTable; the table is a function from the registered
\* ids to their CRC_EXTRA, an id outside its domain reads as undefined.
ValidateWithTable(data, messageId, receivedChecksum, crcExtraTable) ==
    IF messageId \notin DOMAIN crcExtraTable THEN FALSE
    ELSE Validate(data, crcExtraTable[messageId], receivedChecksum)

(***************************************************************************)
(* Framer (core/frame.ts)                                                  *)
(***************************************************************************)

MAVLINK_V1_MAGIC == 254
MAVLINK_V2_MAGIC == 253
MAVLINK_V1_HEADER_SIZE == 6
MAVLINK_V2_HEADER_SIZE == 10
MAVLINK_CHECKSUM_SIZE == 2
MAVLINK_SIGNATURE_SIZE == 13

\* An absent optional number (undefined) and an absent signature.
Undefined == -1
NoSignature == <<>>
NoFrame == [magic |-> 0]

\* The index of the first magic byte at or after offset, Len(data) if none:
\* the while loop of parseFrame.
RECURSIVE FindMagic(_, _)
FindMagic(data, offset) ==
    IF offset < Len(data) /\ At(data, offset) # MAVLINK_V1_MAGIC
                          /\ At(data, offset) # MAVLINK_V2_MAGIC
    THEN FindMagic(data, offset + 1)
    ELSE offset

\* parseFrame: returns [frame, bytesConsumed]; frame = NoFrame when the result
\* carries no frame.
ParseFrame(data, crcExtraTable) ==
    IF Len(data) < 8 THEN [frame |-> NoFrame, bytesConsumed |-> 0]
    ELSE
    LET offset == FindMagic(data, 0) IN
    IF offset = Len(data) THEN [frame |-> NoFrame, bytesConsumed |-> Len(data)]
    ELSE
    LET magic == At(data, offset)
        isV2  == magic = MAVLINK_V2_MAGIC
    IN
    IF Len(data) - offset < (IF isV2 THEN 12 ELSE 8)
    THEN [frame |-> NoFrame, bytesConsumed |-> offset]
    ELSE
    LET length   == At(data, offset + 1)
        incompat == IF isV2 THEN At(data, offset + 2) ELSE Undefined
        compat   == IF isV2 THEN At(data, offset + 3) ELSE Undefined
        fo1      == IF isV2 THEN offset + 4 ELSE offset + 2
        sequence == At(data, fo1)
        systemId == At(data, fo1 + 1)
        compId   == At(data, fo1 + 2)
        idLow    == At(data, fo1 + 3)
        fo2      == fo1 + 4
        wideId   == isV2 /\ Len(data) - fo2 >= 2
        msgId    == IF wideId
                    THEN BitOr(BitOr(idLow, At(data, fo2) * 256), At(data, fo2 + 1) * 65536)
                    ELSE idLow
        fo3      == IF wideId THEN fo2 + 2 ELSE fo2
        totalLength == fo3 - offset + length + 2
    IN
    IF Len(data) - offset < totalLength
    THEN [frame |-> NoFrame, bytesConsumed |-> offset]
    ELSE
    LET payload  == Slice(data, fo3, fo3 + length)
        fo4      == fo3 + length
        checksum == BitOr(At(data, fo4), At(data, fo4 + 1) * 256)
        fo5      == fo4 + 2
        signed   == isV2 /\ incompat # 0 /\ BitAnd(incompat, 1) # 0
                         /\ Len(data) - fo5 >= MAVLINK_SIGNATURE_SIZE
        signature == IF signed THEN Slice(data, fo5, fo5 + MAVLINK_SIGNATURE_SIZE)
                     ELSE NoSignature
        frameOffset == IF signed THEN fo5 + MAVLINK_SIGNATURE_SIZE ELSE fo5
        headerAndPayload == Slice(data, offset + 1, offset + frameOffset - offset - 2)
    IN  [frame |-> [magic |-> magic,
                    length |-> length,
                    incompatible_flags |-> incompat,
                    compatible_flags |-> compat,
                    sequence |-> sequence,
                    system_id |-> systemId,
                    component_id |-> compId,
                    message_id |-> msgId,
                    payload |-> payload,
                    checksum |-> checksum,
                    signature |-> signature,
                    crc_ok |-> ValidateWithTable(headerAndPayload, msgId, checksum, crcExtraTable),
                    protocol_version |-> IF isV2 THEN 2 ELSE 1],
         bytesConsumed |-> frameOffset - offset]

\* Mutant of CreateFrame: the checksum computed from the magic byte on
CreateFrameMutCrcFromMagic(messageId, payload, systemId, componentId, sequence, crcExtra, protocolVersion) ==
    LET needsV2 == messageId > 255
        version == IF protocolVersion # Undefined THEN protocolVersion
                   ELSE IF needsV2 THEN 2 ELSE 1
        isV2    == version = 2
        magic   == IF isV2 THEN MAVLINK_V2_MAGIC ELSE MAVLINK_V1_MAGIC
        header  == IF isV2
                   THEN << magic, Len(payload) % 256, 0, 0,
                           sequence % 256, systemId % 256, componentId % 256,
                           BitAnd(messageId, 255),
                           BitAnd(messageId \div 256, 255),
                           BitAnd(messageId \div 65536, 255) >>
                   ELSE << magic, Len(payload) % 256,
                           sequence % 256, systemId % 256, componentId % 256,
                           BitAnd(messageId, 255) >>
        body    == header \o payload
        checksum == Calculate(body, crcExtra)
    IN  body \o << BitAnd(checksum, 255), BitAnd(checksum \div 256, 255) >>

\* createFrame; protocolVersion = Undefined when the caller passes none.
\* DataView.setUint8 stores its argument modulo 256.
CreateFrame(messageId, payload, systemId, componentId, sequence, crcExtra, protocolVersion) ==
    LET needsV2 == messageId > 255
        version == IF protocolVersion # Undefined THEN protocolVersion
                   ELSE IF needsV2 THEN 2 ELSE 1
        isV2    == version = 2
        magic   == IF isV2 THEN MAVLINK_V2_MAGIC ELSE MAVLINK_V1_MAGIC
        header  == IF isV2
                   THEN << magic, Len(payload) % 256, 0, 0,
                           sequence % 256, systemId % 256, componentId % 256,
                           BitAnd(messageId, 255),
                           BitAnd(messageId \div 256, 255),
                           BitAnd(messageId \div 65536, 255) >>
                   ELSE << magic, Len(payload) % 256,
                           sequence % 256, systemId % 256, componentId % 256,
                           BitAnd(messageId, 255) >>
        body    == header \o payload
        checksum == Calculate(SliceFrom(body, 1), crcExtra)
    IN  body \o << BitAnd(checksum, 255), BitAnd(checksum \div 256, 255) >>

(***************************************************************************)
(* Codec (core/codec.ts)                                                   *)
(*                                                                         *)
(* A FieldDefinition is [name, type, arrayLength, extension]; its type     *)
(* string is the record [base, n]: "char[16]" is [base |-> "char",         *)
(* n |-> 16] and a plain "uint8_t" is [base |-> "uint8_t", n |-> 0].       *)
(* arrayLength = 0 is an absent arrayLength.                               *)
(***************************************************************************)

Num(n) == [t |-> "number", v |-> n]
Big(n) == [t |-> "bigint", v |-> n]
Str(s) == [t |-> "string", v |-> s]
Arr(a) == [t |-> "array", v |-> a]
Undef  == [t |-> "undefined"]

Plain(base) == [base |-> base, n |-> 0]
Inline(base, n) == [base |-> base, n |-> n]

\* type.includes('[') && type.includes(']')
HasBrackets(type) == type.n > 0

\* getTypeSize; an inline array type string falls to the default case.
GetTypeSize(type) ==
    IF HasBrackets(type) THEN 1
    ELSE CASE type.base \in {"uint8_t", "int8_t", "char"} -> 1
           [] type.base \in {"uint16_t", "int16_t"} -> 2
           [] type.base \in {"uint32_t", "int32_t", "float"} -> 4
           [] type.base \in {"uint64_t", "int64_t", "double"} -> 8
           [] OTHER -> 1

\* getBaseType
GetBaseType(type) == IF HasBrackets(type) THEN Plain(type.base) ELSE type

\* getFieldSize
GetFieldSize(field) ==
    IF field.arrayLength # 0 /\ field.arrayLength > 1
    THEN GetTypeSize(GetBaseType(field.type)) * field.arrayLength
    ELSE IF HasBrackets(field.type)
    THEN GetTypeSize(GetBaseType(field.type)) * field.type.n
    ELSE GetTypeSize(field.type)

\* getFieldTypeSize
GetFieldTypeSize(field) == GetTypeSize(GetBaseType(field.type))

\* Mutants of WireCompare: the total size of the field compared in place of
\* the element size; ties broken by descending original index.
WireCompareMutTotalSize(a, b) ==
    LET sizeA == GetFieldSize(a.field)
        sizeB == GetFieldSize(b.field)
    IN  IF sizeB # sizeA THEN sizeB - sizeA ELSE a.originalIndex - b.originalIndex

WireCompareMutReverseTies(a, b) ==
    LET sizeA == GetFieldTypeSize(a.field)
        sizeB == GetFieldTypeSize(b.field)
    IN  IF sizeB # sizeA THEN sizeB - sizeA ELSE b.originalIndex - a.originalIndex

\* The comparator handed to coreFields.sort: negative when a goes first.
WireCompare(a, b) ==
    LET sizeA == GetFieldTypeSize(a.field)
        sizeB == GetFieldTypeSize(b.field)
    IN  IF sizeB # sizeA THEN sizeB - sizeA ELSE a.originalIndex - b.originalIndex

\* Array.prototype.sort with a consistent comparator: insertion of e into an
\* already sorted list, then the sort of a list element by element.
RECURSIVE InsertSorted(_, _)
InsertSorted(e, sorted) ==
    IF sorted = <<>> THEN <<e>>
    ELSE IF WireCompare(e, Head(sorted)) < 0 THEN <<e>> \o sorted
    ELSE <<Head(sorted)>> \o InsertSorted(e, Tail(sorted))

RECURSIVE SortCore(_)
SortCore(list) ==
    IF list = <<>> THEN <<>>
    ELSE InsertSorted(Head(list), SortCore(Tail(list)))

\* sortFieldsByWireOrder
SortFieldsByWireOrder(fields) ==
    LET indexed == [i \in 1..Len(fields) |-> [field |-> fields[i], originalIndex |-> i - 1]]
        coreFields == SelectSeq(indexed, LAMBDA c : ~c.field.extension)
        extensionFields == SelectSeq(fields, LAMBDA f : f.extension)
        sortedCore == SortCore(coreFields)
    IN  [i \in 1..Len(sortedCore) |-> sortedCore[i].field] \o extensionFields

\* getDefaultValue
GetDefaultValue(type) ==
    IF ~HasBrackets(type) /\ type.base \in {"uint64_t", "int64_t"} THEN Big(0) ELSE Num(0)

\* getFieldDefaultValue
GetFieldDefaultValue(field) ==
    IF field.arrayLength # 0 /\ field.arrayLength > 1 THEN Arr(<<>>)
    ELSE CASE field.type.base \in {"uint64_t", "int64_t"} -> Big(0)
           [] field.type.base = "char" ->
                 IF HasBrackets(field.type) THEN Str(<<>>) ELSE Str(<<0>>)
           [] OTHER -> Num(0)

(***************************************************************************)
(* Integers on the wire.  TLC's integers are 32 bits wide: a decoded value *)
(* outside -2^31 .. 2^31-1 is carried as the tuple of its little-endian    *)
(* bytes, which keeps distinct values distinct.                            *)
(***************************************************************************)

RECURSIVE AllEqual(_, _, _)
AllEqual(bytes, from, b) ==
    IF from > Len(bytes) THEN TRUE
    ELSE bytes[from] = b /\ AllEqual(bytes, from + 1, b)

\* DataView.getUintN(offset, true) for N = 8 * Len(bytes)
LEUnsigned(bytes) ==
    LET n == Len(bytes)
        b(i) == IF i <= n THEN bytes[i] ELSE 0
    IN  IF b(4) < 128 /\ AllEqual(bytes, 5, 0)
        THEN b(1) + 256 * b(2) + 65536 * b(3) + 16777216 * b(4)
        ELSE bytes

\* DataView.getIntN(offset, true) for N = 8 * Len(bytes)
LESigned(bytes) ==
    LET n == Len(bytes) IN
    IF bytes[n] < 128 THEN LEUnsigned(bytes)
    ELSE IF n = 1 THEN bytes[1] - 256
    ELSE IF n = 2 THEN bytes[1] + 256 * bytes[2] - 65536
    ELSE IF bytes[4] >= 128 /\ AllEqual(bytes, 5, 255)
    THEN bytes[1] + 256 * bytes[2] + 65536 * bytes[3] + 16777216 * (bytes[4] - 256)
    ELSE bytes

\* DataView.setUintN / setIntN(offset, n, true): the low `size` bytes of the
\* two's complement of n, least significant first (n within TLC's range).
LEBytes(n, size) ==
    [i \in 1..size |->
        IF i = 1 THEN n % 256
        ELSE IF i = 2 THEN (n \div 256) % 256
        ELSE IF i = 3 THEN (n \div 65536) % 256
        ELSE IF i = 4 THEN (n \div 16777216) % 256
        ELSE IF n < 0 THEN 255 ELSE 0]

\* Number(value): NaN is carried as 0, which is what every DataView setter
\* stores for it.  A string converts to NaN unless it is empty.
RECURSIVE ToNumber(_)
ToNumber(value) ==
    CASE value.t = "number" -> value.v
      [] value.t = "bigint" -> value.v
      [] value.t = "string" -> 0
      [] value.t = "array"  -> IF Len(value.v) = 1 THEN ToNumber(value.v[1]) ELSE 0
      [] OTHER -> 0

\* String(value) for the values the codec is handed: a string is itself, an
\* empty array is '', a one-digit number is its digit.
ToStringValue(value) ==
    CASE value.t = "string" -> value.v
      [] value.t = "array" /\ value.v = <<>> -> <<>>
      [] value.t = "number" /\ value.v \in 0..9 -> <<48 + value.v>>

(***************************************************************************)
(* Decoding.  The DataView is the payload itself; a read that runs past    *)
(* its end throws a RangeError, which decodeSingleValue catches.           *)
(***************************************************************************)

Caught == [value |-> Num(0), bytesRead |-> 1]

\* String.fromCharCode over the bytes before the first NUL
RECURSIVE UntilNul(_)
UntilNul(bytes) ==
    IF bytes = <<>> \/ Head(bytes) = 0 THEN <<>>
    ELSE <<Head(bytes)>> \o UntilNul(Tail(bytes))

\* decodeSingleValue, the cases of the switch that name a primitive type
\* (float and double are not modelled: the dialect of the model has none).
DecodeScalar(view, offset, type) ==
    LET size == GetTypeSize(type)
        bytes == Slice(view, offset, offset + size)
    IN  IF offset + size > Len(view) THEN Caught
        ELSE CASE type.base \in {"uint8_t", "uint16_t", "uint32_t"} ->
                    [value |-> Num(LEUnsigned(bytes)), bytesRead |-> size]
               [] type.base \in {"int8_t", "int16_t", "int32_t"} ->
                    [value |-> Num(LESigned(bytes)), bytesRead |-> size]
               [] type.base = "uint64_t" ->
                    [value |-> Big(LEUnsigned(bytes)), bytesRead |-> size]
               [] type.base = "int64_t" ->
                    [value |-> Big(LESigned(bytes)), bytesRead |-> size]
               [] type.base = "char" ->
                    [value |-> Str(<<bytes[1]>>), bytesRead |-> 1]
               [] OTHER ->
                    [value |-> Num(bytes[1]), bytesRead |-> 1]

\* The loop over the elements of a non-char array, in decodeSingleValue
\* (inline base[N]) and in decodeField (arrayLength).
RECURSIVE DecodeArrayLoop(_, _, _, _, _, _, _)
DecodeArrayLoop(view, offset, baseType, arrayLength, i, values, totalBytes) ==
    IF i >= arrayLength \/ offset + totalBytes >= Len(view)
    THEN [value |-> Arr(values), bytesRead |-> totalBytes]
    ELSE LET d == DecodeScalar(view, offset + totalBytes, baseType)
         IN  DecodeArrayLoop(view, offset, baseType, arrayLength, i + 1,
                             Append(values, d.value), totalBytes + d.bytesRead)

\* decodeSingleValue
DecodeSingleValue(view, offset, type) ==
    IF ~HasBrackets(type) THEN DecodeScalar(view, offset, type)
    ELSE IF type.base = "char"
    THEN [value |-> Str(UntilNul(Slice(view, offset, offset + type.n))),
          bytesRead |-> type.n]
    ELSE DecodeArrayLoop(view, offset, GetBaseType(type), type.n, 0, <<>>, 0)

\* decodeField
DecodeField(view, offset, field) ==
    LET isArray == field.arrayLength # 0
        arrayLength == IF field.arrayLength # 0 THEN field.arrayLength ELSE 1
        baseType == GetBaseType(field.type)
    IN  IF isArray /\ arrayLength > 1
        THEN IF baseType.base = "char"
             THEN [value |-> Str(UntilNul(Slice(view, offset, offset + arrayLength))),
                   bytesRead |-> arrayLength]
             ELSE DecodeArrayLoop(view, offset, baseType, arrayLength, 0, <<>>, 0)
        ELSE DecodeSingleValue(view, offset, field.type)

\* The for loop of decodePayload over the fields in wire order.
RECURSIVE DecodeFields(_, _, _, _, _)
DecodeFields(payload, sortedFields, i, offset, result) ==
    IF i > Len(sortedFields) THEN result
    ELSE LET field == sortedFields[i] IN
         IF offset >= Len(payload)
         THEN DecodeFields(payload, sortedFields, i + 1, offset,
                           (field.name :> GetFieldDefaultValue(field)) @@ result)
         ELSE LET d == DecodeField(payload, offset, field)
              IN  DecodeFields(payload, sortedFields, i + 1, offset + d.bytesRead,
                               (field.name :> d.value) @@ result)

EmptyObject == [k \in {} |-> Undef]

\* decodePayload
DecodePayload(payload, fields) ==
    DecodeFields(payload, SortFieldsByWireOrder(fields), 1, 0, EmptyObject)

(***************************************************************************)
(* Encoding.  An encoder returns the bytes it writes at its offset.        *)
(***************************************************************************)

\* object[key] of a JavaScript object
Get(object, key) == IF key \in DOMAIN object THEN object[key] ELSE Undef

\* Mutant of CharCodeOrNul: the top bit of the character dropped
CharCodeOrNulMutSevenBits(str, i) == IF i < Len(str) THEN At(str, i) % 128 ELSE 0

\* str.charCodeAt(i) for i < length, else 0, stored by setUint8
CharCodeOrNul(str, i) == IF i < Len(str) THEN At(str, i) % 256 ELSE 0

\* encodeSingleValue
EncodeSingleValue(type, value) ==
    LET actualValue == IF value = Undef THEN GetDefaultValue(type) ELSE value IN
    IF HasBrackets(type)
    THEN IF type.base = "char"
         THEN LET str == ToStringValue(actualValue)
              IN  [i \in 1..type.n |-> CharCodeOrNul(str, i - 1)]
         ELSE << ToNumber(actualValue) % 256 >>
    ELSE CASE type.base \in {"uint8_t", "int8_t"} -> LEBytes(ToNumber(actualValue), 1)
           [] type.base \in {"uint16_t", "int16_t"} -> LEBytes(ToNumber(actualValue), 2)
           [] type.base \in {"uint32_t", "int32_t"} -> LEBytes(ToNumber(actualValue), 4)
           [] type.base \in {"uint64_t", "int64_t"} -> LEBytes(ToNumber(actualValue), 8)
           [] type.base = "char" ->
                 IF actualValue.t = "string"
                 THEN << CharCodeOrNul(actualValue.v, 0) >>
                 ELSE << ToNumber(actualValue) % 256 >>
           [] OTHER -> << ToNumber(actualValue) % 256 >>

RECURSIVE Flatten(_)
Flatten(seqs) == IF seqs = <<>> THEN <<>> ELSE Head(seqs) \o Flatten(Tail(seqs))

\* encodeField
EncodeField(field, value) ==
    LET isArray == field.arrayLength # 0
        arrayLength == IF field.arrayLength # 0 THEN field.arrayLength ELSE 1
        baseType == GetBaseType(field.type)
    IN  IF isArray /\ arrayLength > 1
        THEN IF baseType.base = "char" /\ value.t = "string"
             THEN [i \in 1..arrayLength |-> CharCodeOrNul(value.v, i - 1)]
             ELSE LET arrayValue == IF value.t = "array" THEN value.v ELSE <<value>>
                      item(i) == IF i < Len(arrayValue) THEN At(arrayValue, i)
                                 ELSE GetDefaultValue(baseType)
                  IN  Flatten([i \in 1..arrayLength |-> EncodeSingleValue(baseType, item(i - 1))])
        ELSE EncodeSingleValue(field.type, value)

\* new Uint8Array view of the buffer after a write of bytes at offset
WriteAt(buf, offset, bytes) ==
    [i \in 1..Len(buf) |->
        IF i > offset /\ i <= offset + Len(bytes) THEN bytes[i - offset] ELSE buf[i]]

\* The second loop of encodePayload: every field written at the running offset.
RECURSIVE EncodeFields(_, _, _, _, _)
EncodeFields(message, sortedFields, i, offset, buf) ==
    IF i > Len(sortedFields) THEN buf
    ELSE LET written == EncodeField(sortedFields[i], Get(message, sortedFields[i].name))
         IN  EncodeFields(message, sortedFields, i + 1, offset + Len(written),
                          WriteAt(buf, offset, written))

RECURSIVE SumSizes(_)
SumSizes(fields) ==
    IF fields = <<>> THEN 0 ELSE GetFieldSize(Head(fields)) + SumSizes(Tail(fields))

\* Index (1-based) of the first extension field of a list, 0 if none.
RECURSIVE FirstExtension(_, _)
FirstExtension(fields, i) ==
    IF i > Len(fields) THEN 0
    ELSE IF fields[i].extension THEN i ELSE FirstExtension(fields, i + 1)

\* encodePayload, "Calculate core payload size and find extension start"
CorePayloadSize(sortedFields) == SumSizes(SelectSeq(sortedFields, LAMBDA f : ~f.extension))

HasExtensions(sortedFields) == FirstExtension(sortedFields, 1) # 0

ExtensionStartOffset(sortedFields) ==
    LET k == FirstExtension(sortedFields, 1) IN
    IF k = 0 THEN 0
    ELSE SumSizes(SelectSeq(SubSeq(sortedFields, 1, k - 1), LAMBDA f : ~f.extension))

\* The largest i in from..to-1 with a non-zero byte at i, -1 if none: the
\* backward scan of encodePayload.
RECURSIVE LastNonZero(_, _, _)
LastNonZero(bytes, from, i) ==
    IF i < from THEN -1
    ELSE IF At(bytes, i) # 0 THEN i ELSE LastNonZero(bytes, from, i - 1)

\* Mutants of TrimmedLength: the scan running over the whole payload with no
\* clamp to the core size; the scan returning the index of the last non-zero
\* byte instead of one past it.
TrimmedLengthMutNoClamp(fullPayload, corePayloadSize, extensionStartOffset) ==
    LastNonZero(fullPayload, 0, Len(fullPayload) - 1) + 1

TrimmedLengthMutOffByOne(fullPayload, corePayloadSize, extensionStartOffset) ==
    LET last == LastNonZero(fullPayload, extensionStartOffset, Len(fullPayload) - 1)
    IN  IF last = -1 THEN corePayloadSize ELSE Max(last, corePayloadSize)

\* encodePayload, "Trim trailing zeros from extension fields": the final
\* value of trimmedLength.
TrimmedLength(fullPayload, corePayloadSize, extensionStartOffset) ==
    LET last == LastNonZero(fullPayload, extensionStartOffset, Len(fullPayload) - 1)
        trimmed == IF extensionStartOffset < Len(fullPayload)
                   THEN IF last = -1 THEN corePayloadSize ELSE last + 1
                   ELSE Len(fullPayload)
    IN  IF trimmed < corePayloadSize THEN corePayloadSize ELSE trimmed

\* Mutants of EncodePayload: trailing zero bytes trimmed from the whole
\* payload down to its first byte, extension fields or not; trailing zero
\* bytes trimmed down to the end of the first field in wire order.
EncodePayloadMutTrimWholePayload(message, fields) ==
    LET sortedFields == SortFieldsByWireOrder(fields)
        totalSize == SumSizes(sortedFields)
        fullPayload == EncodeFields(message, sortedFields, 1, 0, Zeros(totalSize))
    IN  Slice(fullPayload, 0, Max(LastNonZero(fullPayload, 0, Len(fullPayload) - 1) + 1, 1))

EncodePayloadMutFirstFieldFloor(message, fields) ==
    LET sortedFields == SortFieldsByWireOrder(fields)
        totalSize == SumSizes(sortedFields)
        fullPayload == EncodeFields(message, sortedFields, 1, 0, Zeros(totalSize))
    IN  Slice(fullPayload, 0, Max(LastNonZero(fullPayload, 0, Len(fullPayload) - 1) + 1,
                                  GetFieldSize(sortedFields[1])))

\* encodePayload
EncodePayload(message, fields) ==
    LET sortedFields == SortFieldsByWireOrder(fields)
        totalSize == SumSizes(sortedFields)
        fullPayload == EncodeFields(message, sortedFields, 1, 0, Zeros(totalSize))
    IN  IF ~HasExtensions(sortedFields) THEN fullPayload
        ELSE LET trimmedLength == TrimmedLength(fullPayload, CorePayloadSize(sortedFields),
                                                ExtensionStartOffset(sortedFields))
             IN  IF trimmedLength < Len(fullPayload)
                 THEN Slice(fullPayload, 0, trimmedLength)
                 ELSE fullPayload

(***************************************************************************)
(* Stream buffer (core/stream-buffer.ts).  A StreamBuffer is the record    *)
(* [buffer, bufferStart, bufferEnd].                                       *)
(***************************************************************************)

\* The initialSize handed to the StreamBuffer constructor.  The source's
\* default is 4096; the model's engine is built on a small backing array so
\* that growth and compaction happen within a few frames.
InitialSize == 24

NewStreamBuffer(initialSize) ==
    [buffer |-> Zeros(initialSize), bufferStart |-> 0, bufferEnd |-> 0]

\* StreamBuffer.getContents
GetContents(sb) == Slice(sb.buffer, sb.bufferStart, sb.bufferEnd)

\* Mutant of StreamAppend: the data written at bufferStart instead of bufferEnd
StreamAppendMutOverwrite(sb, data) ==
    LET currentLength == sb.bufferEnd - sb.bufferStart
        requiredSize == currentLength + Len(data)
        grown == IF requiredSize > Len(sb.buffer)
                 THEN LET newSize == Max(Len(sb.buffer) * 2, requiredSize)
                      IN  [buffer |-> WriteAt(Zeros(newSize), 0, GetContents(sb)),
                           bufferStart |-> 0, bufferEnd |-> currentLength]
                 ELSE IF sb.bufferEnd + Len(data) > Len(sb.buffer)
                 THEN [buffer |-> WriteAt(sb.buffer, 0, GetContents(sb)),
                       bufferStart |-> 0, bufferEnd |-> currentLength]
                 ELSE sb
    IN  [buffer |-> WriteAt(grown.buffer, grown.bufferStart, data),
         bufferStart |-> grown.bufferStart,
         bufferEnd |-> grown.bufferEnd + Len(data)]

\* Mutant of StreamAppend: compaction rewinds the indices and leaves the live
\* bytes where they were
StreamAppendMutNoMove(sb, data) ==
    LET currentLength == sb.bufferEnd - sb.bufferStart
        requiredSize == currentLength + Len(data)
        grown == IF requiredSize > Len(sb.buffer)
                 THEN LET newSize == Max(Len(sb.buffer) * 2, requiredSize)
                      IN  [buffer |-> WriteAt(Zeros(newSize), 0, GetContents(sb)),
                           bufferStart |-> 0, bufferEnd |-> currentLength]
                 ELSE IF sb.bufferEnd + Len(data) > Len(sb.buffer)
                 THEN [buffer |-> sb.buffer,
                       bufferStart |-> 0, bufferEnd |-> currentLength]
                 ELSE sb
    IN  [buffer |-> WriteAt(grown.buffer, grown.bufferEnd, data),
         bufferStart |-> grown.bufferStart,
         bufferEnd |-> grown.bufferEnd + Len(data)]

\* StreamBuffer.append
StreamAppend(sb, data) ==
    LET currentLength == sb.bufferEnd - sb.bufferStart
        requiredSize == currentLength + Len(data)
        grown == IF requiredSize > Len(sb.buffer)
                 THEN LET newSize == Max(Len(sb.buffer) * 2, requiredSize)
                      IN  [buffer |-> WriteAt(Zeros(newSize), 0, GetContents(sb)),
                           bufferStart |-> 0, bufferEnd |-> currentLength]
                 ELSE IF sb.bufferEnd + Len(data) > Len(sb.buffer)
                 THEN [buffer |-> WriteAt(sb.buffer, 0, GetContents(sb)),
                       bufferStart |-> 0, bufferEnd |-> currentLength]
                 ELSE sb
    IN  [buffer |-> WriteAt(grown.buffer, grown.bufferEnd, data),
         bufferStart |-> grown.bufferStart,
         bufferEnd |-> grown.bufferEnd + Len(data)]

\* Mutant of StreamConsume: the buffer emptied whatever is consumed
StreamConsumeMutReset(sb, bytes) ==
    [sb EXCEPT !.bufferStart = 0, !.bufferEnd = 0]

\* Mutant of StreamConsume: the indices are not rewound when the buffer is
\* emptied
StreamConsumeMutNoRewind(sb, bytes) ==
    [sb EXCEPT !.bufferStart = sb.bufferStart + bytes]

\* StreamBuffer.consume
StreamConsume(sb, bytes) ==
    IF sb.bufferStart + bytes = sb.bufferEnd
    THEN [sb EXCEPT !.bufferStart = 0, !.bufferEnd = 0]
    ELSE [sb EXCEPT !.bufferStart = sb.bufferStart + bytes]

\* Mutant of StreamReset: only the read index rewound
StreamResetMutKeepEnd(sb) == [sb EXCEPT !.bufferStart = 0]

\* StreamBuffer.reset
StreamReset(sb) == [sb EXCEPT !.bufferStart = 0, !.bufferEnd = 0]

(***************************************************************************)
(* Message registry (core/message-registry.ts).  A registry is the record  *)
(* [definitionsById, definitionsByName, crcExtraTable] of three maps.      *)
(***************************************************************************)

EmptyRegistry ==
    [definitionsById |-> <<>>, definitionsByName |-> <<>>, crcExtraTable |-> <<>>]

\* Map.prototype.set / property assignment
MapSet(map, key, value) == (key :> value) @@ map

\* MessageRegistry.register
Register(reg, def, crcExtra) ==
    [definitionsById   |-> MapSet(reg.definitionsById, def.id, def),
     definitionsByName |-> MapSet(reg.definitionsByName, def.name, def),
     crcExtraTable     |-> MapSet(reg.crcExtraTable, def.id, crcExtra)]

\* MessageRegistry.getCrcExtra
GetCrcExtra(reg, messageId) ==
    IF messageId \in DOMAIN reg.crcExtraTable
    THEN reg.crcExtraTable[messageId] ELSE Undefined

\* MessageRegistry.getMessageDefinition / getMessageDefinitionByName
NoDefinition == [id |-> Undefined]

GetMessageDefinition(reg, id) ==
    IF id \in DOMAIN reg.definitionsById
    THEN reg.definitionsById[id] ELSE NoDefinition

\* Mutant of GetMessageDefinitionByName: a name the catalog lacks answered with
\* the definition of id 0
GetMessageDefinitionByNameMutFallback(reg, name) ==
    IF name \in DOMAIN reg.definitionsByName
    THEN reg.definitionsByName[name] ELSE reg.definitionsById[0]

GetMessageDefinitionByName(reg, name) ==
    IF name \in DOMAIN reg.definitionsByName
    THEN reg.definitionsByName[name] ELSE NoDefinition

(***************************************************************************)
(* The dialect the engine of the model is loaded with: HEARTBEAT,          *)
(* MISSION_ACK, NAMED_VALUE_INT and PROTOCOL_VERSION as in common.xml,     *)
(* and EXT_TAIL, a message with a 4-byte extension field followed by a     *)
(* 1-byte one.                                                             *)
(***************************************************************************)

Field(name, base) ==
    [name |-> name, type |-> Plain(base), arrayLength |-> 0, extension |-> FALSE]
ArrayField(name, base, n) ==
    [name |-> name, type |-> Plain(base), arrayLength |-> n, extension |-> FALSE]
InlineField(name, base, n) ==
    [name |-> name, type |-> Inline(base, n), arrayLength |-> 0, extension |-> FALSE]
Ext(field) == [field EXCEPT !.extension = TRUE]

HEARTBEAT ==
    [id |-> 0, name |-> "HEARTBEAT",
     fields |-> << Field("type", "uint8_t"), Field("autopilot", "uint8_t"),
                   Field("base_mode", "uint8_t"), Field("custom_mode", "uint32_t"),
                   Field("system_status", "uint8_t"), Field("mavlink_version", "uint8_t") >>]

MISSION_ACK ==
    [id |-> 47, name |-> "MISSION_ACK",
     fields |-> << Field("target_system", "uint8_t"), Field("target_component", "uint8_t"),
                   Field("type", "uint8_t"),
                   Ext(Field("mission_type", "uint8_t")),
                   Ext(Field("opaque_id", "uint32_t")) >>]

EXT_TAIL ==
    [id |-> 180, name |-> "EXT_TAIL",
     fields |-> << Field("flags", "uint8_t"), Field("count", "uint16_t"),
                   Ext(Field("wide", "uint32_t")), Ext(Field("tail", "uint8_t")) >>]

NAMED_VALUE_INT ==
    [id |-> 252, name |-> "NAMED_VALUE_INT",
     fields |-> << Field("time_boot_ms", "uint32_t"), InlineField("name", "char", 10),
                   Field("value", "int32_t") >>]

PROTOCOL_VERSION ==
    [id |-> 300, name |-> "PROTOCOL_VERSION",
     fields |-> << Field("version", "uint16_t"), Field("min_version", "uint16_t"),
                   Field("max_version", "uint16_t"),
                   ArrayField("spec_version_hash", "uint8_t", 8),
                   ArrayField("library_version_hash", "uint8_t", 8) >>]

\* The definitions with their CRC_EXTRA, in registration order.
Dialect ==
    << <<HEARTBEAT, 50>>, <<MISSION_ACK, 153>>, <<EXT_TAIL, 77>>,
       <<NAMED_VALUE_INT, 44>>, <<PROTOCOL_VERSION, 217>> >>

dialectName == "model"

RECURSIVE LoadDefinitions(_, _)
LoadDefinitions(reg, defs) ==
    IF defs = <<>> THEN reg
    ELSE LoadDefinitions(Register(reg, Head(defs)[1], Head(defs)[2]), Tail(defs))

\* The registry of a constructed engine: loadDefinitions registers the dialect.
LoadedRegistry == LoadDefinitions(EmptyRegistry, Dialect)

(***************************************************************************)
(* Message serializer (core/message-serializer.ts).  A message handed to   *)
(* the serializer is [message_name, payload, system_id, component_id,      *)
(* sequence, protocol_version]; payload is a tagged value, Obj(map) when   *)
(* it is an object; an absent number is Undefined.                         *)
(***************************************************************************)

Obj(map) == [t |-> "object", v |-> map]

Thrown(error) == [ok |-> FALSE, error |-> error]
Returned(bytes) == [ok |-> TRUE, bytes |-> bytes]

UnknownMessage == "Unknown message type"
MalformedMessage == "Message must have a 'payload' object"
MissingCrcExtra == "No CRC_EXTRA defined"

\* !message.payload || typeof message.payload !== 'object'
PayloadRejected(message) == message.payload.t \notin {"object", "array"}

\* { ...payload }: the own properties of the payload; an array spreads into
\* its indices "0", "1", ...
Spread(payload) ==
    IF payload.t = "object" THEN payload.v
    ELSE [k \in {ToString(i - 1) : i \in 1..Len(payload.v)} |->
            payload.v[CHOOSE i \in 1..Len(payload.v) : ToString(i - 1) = k]]

\* Mutant of FillDefaults: every declared field set to its default, supplied
\* or not
FillDefaultsMutOverwrite(object, fields, i) ==
    [k \in {fields[j].name : j \in 1..Len(fields)} |->
        GetFieldDefaultValue(fields[CHOOSE j \in 1..Len(fields) : fields[j].name = k])]
    @@ object

\* The loop of completeMessageWithDefaults and of completeMessage
RECURSIVE FillDefaults(_, _, _)
FillDefaults(object, fields, i) ==
    IF i > Len(fields) THEN object
    ELSE LET field == fields[i] IN
         IF Get(object, field.name) = Undef
         THEN FillDefaults((field.name :> GetFieldDefaultValue(field)) @@ object, fields, i + 1)
         ELSE FillDefaults(object, fields, i + 1)

\* MessageSerializer.completeMessageWithDefaults
CompleteMessageWithDefaults(messageFields, fields) == FillDefaults(messageFields, fields, 1)

\* Mutant of NumberOr: the caller's value ignored
NumberOrMutDefault(x, dflt) == dflt

\* typeof x === 'number' ? x : dflt
NumberOr(x, dflt) == IF x # Undefined THEN x ELSE dflt

\* MessageSerializer.serializeMessage
SerializeMessage(reg, message) ==
    LET messageDef == GetMessageDefinitionByName(reg, message.message_name) IN
    IF messageDef = NoDefinition THEN Thrown(UnknownMessage)
    ELSE IF PayloadRejected(message) THEN Thrown(MalformedMessage)
    ELSE
    LET messageFields == Spread(message.payload)
        completeMessage == CompleteMessageWithDefaults(messageFields, messageDef.fields)
        encoded == EncodePayload(completeMessage, messageDef.fields)
        sysId == NumberOr(message.system_id, 1)
        compId == NumberOr(message.component_id, 1)
        seq == NumberOr(message.sequence, 0)
        extra == GetCrcExtra(reg, messageDef.id)
        idNeedsV2 == messageDef.id > 255
        userVersion == message.protocol_version
        chosenVersion == NumberOr(userVersion, IF idNeedsV2 THEN 2 ELSE 1)
    IN  IF extra = Undefined THEN Thrown(MissingCrcExtra)
        ELSE Returned(CreateFrame(messageDef.id, encoded, sysId, compId, seq, extra,
                                  chosenVersion))

\* MessageSerializer.completeMessage
CompleteMessage(reg, message) ==
    LET messageDef == GetMessageDefinitionByName(reg, message.message_name) IN
    IF messageDef = NoDefinition THEN Thrown(UnknownMessage)
    ELSE IF PayloadRejected(message) THEN Thrown(MalformedMessage)
    ELSE [ok |-> TRUE,
          message |-> [message EXCEPT !.payload =
              Obj(FillDefaults(Spread(message.payload),
                               SortFieldsByWireOrder(messageDef.fields), 1))]]

(***************************************************************************)
(* Dialect parser (core/parser.ts)                                         *)
(***************************************************************************)

\* Array.from(frame.payload)
ArrayFrom(bytes) == Arr([i \in 1..Len(bytes) |-> Num(bytes[i])])

\* DialectParser.decode (the timestamp, Date.now(), is left out)
Decode(reg, frame) ==
    LET messageDef == GetMessageDefinition(reg, frame.message_id)
        protocolVersion == IF frame.protocol_version # 0 THEN frame.protocol_version
                           ELSE IF frame.magic = 253 THEN 2 ELSE 1
        common == [system_id |-> frame.system_id,
                   component_id |-> frame.component_id,
                   message_id |-> frame.message_id,
                   sequence |-> frame.sequence,
                   protocol_version |-> protocolVersion,
                   checksum |-> frame.checksum,
                   crc_ok |-> frame.crc_ok,
                   signature |-> frame.signature,
                   dialect |-> dialectName]
    IN  IF messageDef = NoDefinition
        THEN common @@ [message_name |-> "UNKNOWN_" \o ToString(frame.message_id),
                        payload |-> ("raw_payload" :> ArrayFrom(frame.payload))]
        ELSE common @@ [message_name |-> messageDef.name,
                        payload |-> DecodePayload(frame.payload, messageDef.fields)]

\* Mutant of ParseLoop: an if in place of the while, the scan stops after the
\* first frame.
ParseLoopMutOnce(reg, bufferData, offset, res) ==
    IF offset >= Len(bufferData) THEN [offset |-> offset, results |-> res]
    ELSE LET frameResult == ParseFrame(SliceFrom(bufferData, offset), reg.crcExtraTable) IN
         IF frameResult.frame # NoFrame
         THEN [offset |-> offset + frameResult.bytesConsumed,
               results |-> Append(res, Decode(reg, frameResult.frame))]
         ELSE [offset |-> offset + frameResult.bytesConsumed, results |-> res]

\* Mutant of ParseLoop: the branch that advances over skipped bytes is
\* missing, the scan stops where no frame was found.
ParseLoopMutKeepJunk(reg, bufferData, offset, res) ==
    IF offset >= Len(bufferData) THEN [offset |-> offset, results |-> res]
    ELSE LET frameResult == ParseFrame(SliceFrom(bufferData, offset), reg.crcExtraTable) IN
         IF frameResult.frame # NoFrame
         THEN [offset |-> offset + frameResult.bytesConsumed,
               results |-> Append(res, Decode(reg, frameResult.frame))]
         ELSE [offset |-> offset, results |-> res]

\* The while loop of parseBytes: returns the final offset and the results.
RECURSIVE ParseLoop(_, _, _, _)
ParseLoop(reg, bufferData, offset, res) ==
    IF offset >= Len(bufferData) THEN [offset |-> offset, results |-> res]
    ELSE LET frameResult == ParseFrame(SliceFrom(bufferData, offset), reg.crcExtraTable) IN
         IF frameResult.frame # NoFrame
         THEN ParseLoop(reg, bufferData, offset + frameResult.bytesConsumed,
                        Append(res, Decode(reg, frameResult.frame)))
         ELSE IF frameResult.bytesConsumed > 0
         THEN ParseLoop(reg, bufferData, offset + frameResult.bytesConsumed, res)
         ELSE [offset |-> offset, results |-> res]

StreamBufferState == [buffer |-> buffer, bufferStart |-> bufferStart, bufferEnd |-> bufferEnd]

SetStreamBuffer(sb) ==
    /\ buffer' = sb.buffer
    /\ bufferStart' = sb.bufferStart
    /\ bufferEnd' = sb.bufferEnd

\* DialectParser.parseBytes(data): append, scan, consume, return the results.
ParseBytes(data) ==
    /\ calls' = calls + 1
    /\ IF Len(data) = 0
       THEN /\ results' = <<>>
            /\ UNCHANGED <<buffer, bufferStart, bufferEnd, emitted>>
       ELSE LET appended == StreamAppend(StreamBufferState, data)
                scan == ParseLoop(registry, GetContents(appended), 0, <<>>)
            IN  /\ SetStreamBuffer(StreamConsume(appended, scan.offset))
                /\ results' = scan.results
                /\ emitted' = emitted \o scan.results
    /\ UNCHANGED <<registry, out>>

\* DialectParser.resetBuffer
ResetBuffer ==
    /\ SetStreamBuffer(StreamReset(StreamBufferState))
    /\ UNCHANGED <<registry, wire, sent, results, emitted, calls, out>>

(***************************************************************************)
(* The link and the callers.  A caller serializes a message and writes the *)
(* frame to the link, or writes other bytes to it; the receiver hands the  *)
(* bytes of the link to parseBytes in chunks.                              *)
(***************************************************************************)

NoOutcome == [ok |-> FALSE, error |-> "none"]

InitEngine ==
    /\ buffer = NewStreamBuffer(InitialSize).buffer
    /\ bufferStart = 0
    /\ bufferEnd = 0
    /\ registry = LoadedRegistry
    /\ wire = <<>>
    /\ sent = <<>>
    /\ results = <<>>
    /\ emitted = <<>>
    /\ calls = 0
    /\ out = NoOutcome

\* serializeMessage(m), the frame written to the link when it is returned
Send(m) ==
    LET r == SerializeMessage(registry, m) IN
    /\ out' = r
    /\ IF r.ok
       THEN /\ wire' = wire \o r.bytes
            /\ sent' = Append(sent, [kind |-> "frame", message |-> m, bytes |-> r.bytes])
       ELSE UNCHANGED <<wire, sent>>
    /\ UNCHANGED <<buffer, bufferStart, bufferEnd, registry, results, emitted, calls>>

\* Bytes that are no frame written to the link
SendNoise(bytes) ==
    /\ wire' = wire \o bytes
    /\ sent' = Append(sent, [kind |-> "noise", bytes |-> bytes])
    /\ UNCHANGED <<buffer, bufferStart, bufferEnd, registry, results, emitted, calls, out>>

\* The first k bytes of the link handed to parseBytes in one call
Feed(k) ==
    /\ k \in 1..Len(wire)
    /\ ParseBytes(SubSeq(wire, 1, k))
    /\ wire' = SubSeq(wire, k + 1, Len(wire))
    /\ UNCHANGED sent

(***************************************************************************)
(* Messages handed to the serializer                                       *)
(***************************************************************************)

Message(name, payload, version) ==
    [message_name |-> name, payload |-> Obj(payload), system_id |-> Undefined,
     component_id |-> Undefined, sequence |-> Undefined, protocol_version |-> version]

Addressed(m, sys, comp, seq) ==
    [m EXCEPT !.system_id = sys, !.component_id = comp, !.sequence = seq]

\* An object literal whose properties set to undefined are left out
Strip(object) == [k \in {x \in DOMAIN object : object[x] # Undef} |-> object[k]]

Versions == {Undefined, 1, 2}

\* HEARTBEAT: scenario S1, all zero, a trailing zero, and fields left out
HeartbeatPayloads ==
    { [type |-> Num(6), autopilot |-> Num(8), base_mode |-> Num(81),
       custom_mode |-> Num(12345), system_status |-> Num(4), mavlink_version |-> Num(3)],
      [type |-> Num(0), autopilot |-> Num(0), base_mode |-> Num(0),
       custom_mode |-> Num(0), system_status |-> Num(0), mavlink_version |-> Num(0)],
      [type |-> Num(6), autopilot |-> Num(8), base_mode |-> Num(81),
       custom_mode |-> Num(0), system_status |-> Num(4), mavlink_version |-> Num(0)],
      [type |-> Num(6), custom_mode |-> Num(305419896)] }

\* MISSION_ACK: the extension fields absent, zero, small and wide
MissionAckPayloads ==
    { Strip([target_system |-> Num(1), target_component |-> Num(190), type |-> ty,
             mission_type |-> mt, opaque_id |-> oid]) :
        ty \in {Num(0), Num(5)},
        mt \in {Undef, Num(2)},
        oid \in {Undef, Num(0), Num(5), Num(261), Num(305419896)} }

\* EXT_TAIL: a 4-byte extension field followed by a 1-byte one
ExtTailPayloads ==
    { Strip([flags |-> Num(1), count |-> Num(300), wide |-> w, tail |-> tl]) :
        w \in {Undef, Num(5), Num(261), Num(65536), Num(16777216)},
        tl \in {Undef, Num(0), Num(7)} }

\* NAMED_VALUE_INT: a short, an exact, an overlong and an absent name
NamedValueIntPayloads ==
    { Strip([time_boot_ms |-> Num(1000), name |-> nm, value |-> val]) :
        nm \in {Undef, Str(<<97, 98>>), Str(<<97, 98, 99, 100, 101, 102, 103, 104, 105, 106>>)},
        val \in {Num(7), Num(-2)} }

\* PROTOCOL_VERSION: scenario S2
ProtocolVersionPayloads ==
    { [version |-> Num(200), min_version |-> Num(100), max_version |-> Num(300),
       spec_version_hash |-> Arr(<<Num(170), Num(187), Num(204), Num(221),
                                   Num(238), Num(255), Num(17), Num(34)>>),
       library_version_hash |-> Arr(<<Num(51), Num(68), Num(85), Num(102),
                                      Num(119), Num(136), Num(153), Num(170)>>)] }

MessagesOf(name, payloads, versions) ==
    { Message(name, p, v) : p \in payloads, v \in versions }

(***************************************************************************)
(* Round trip of one message: a caller serializes one message on a fresh   *)
(* engine and the receiver parses the whole frame in one call.             *)
(***************************************************************************)

RoundTripMessages ==
    MessagesOf("HEARTBEAT", HeartbeatPayloads, Versions)
    \cup MessagesOf("MISSION_ACK", MissionAckPayloads, Versions)
    \cup MessagesOf("EXT_TAIL", ExtTailPayloads, Versions)
    \cup MessagesOf("NAMED_VALUE_INT", NamedValueIntPayloads, Versions)
    \cup MessagesOf("PROTOCOL_VERSION", ProtocolVersionPayloads, Versions)

SendOne == \E m \in RoundTripMessages : sent = <<>> /\ Send(m)

FeedAll == wire # <<>> /\ Feed(Len(wire))

NextRoundTrip == SendOne \/ FeedAll

SpecRoundTrip == InitEngine /\ [][NextRoundTrip]_vars

(***************************************************************************)
(* What the properties below talk about                                    *)
(***************************************************************************)

DefinitionOf(m) == registry.definitionsByName[m.message_name]

\* The payload bytes and the length byte of a frame without signature
PayloadOfFrame(bytes) ==
    IF bytes[1] = MAVLINK_V2_MAGIC
    THEN SubSeq(bytes, MAVLINK_V2_HEADER_SIZE + 1, Len(bytes) - MAVLINK_CHECKSUM_SIZE)
    ELSE SubSeq(bytes, MAVLINK_V1_HEADER_SIZE + 1, Len(bytes) - MAVLINK_CHECKSUM_SIZE)

LengthByte(bytes) == bytes[2]

\* The message with every missing field filled in, as completeMessage returns it
Completed(m) == CompleteMessage(registry, m).message.payload.v

\* The encoding of a message at full payload size, before any truncation
FullEncoding(m) ==
    LET sortedFields == SortFieldsByWireOrder(DefinitionOf(m).fields)
    IN  EncodeFields(Completed(m), sortedFields, 1, 0, Zeros(SumSizes(sortedFields)))

CoreSize(m) == SumSizes(SelectSeq(DefinitionOf(m).fields, LAMBDA f : ~f.extension))
FullSize(m) == SumSizes(DefinitionOf(m).fields)
DeclaresExtension(m) == \E i \in 1..Len(DefinitionOf(m).fields) : DefinitionOf(m).fields[i].extension

\* One frame was sent and the receiver has parsed all of it in one call.
OneFrameParsed ==
    /\ Len(sent) = 1 /\ sent[1].kind = "frame"
    /\ wire = <<>> /\ calls = 1

\* C1: round trip: parse_bytes(serialize_message(msg)) returns exactly one
\* message, whose payload equals complete_message(msg).payload, with
\* crc_ok = true.
C1_RoundTrip ==
    OneFrameParsed =>
        /\ Len(results) = 1
        /\ results[1].crc_ok
        /\ results[1].payload = Completed(sent[1].message)

\* The frames a caller has written to the link
Frames == {i \in 1..Len(sent) : sent[i].kind = "frame"}

\* The 1-based position of the last non-zero byte, 0 when every byte is zero
LastNonZeroPosition(bytes) ==
    LET nonZero == {i \in 1..Len(bytes) : bytes[i] # 0}
    IN  IF nonZero = {} THEN 0 ELSE CHOOSE i \in nonZero : \A j \in nonZero : j <= i

\* C7: v1 never truncates: the payload length byte of every frame serialized
\* as v1 equals the full payload size of its message, extension fields
\* included.
C7_V1NeverTruncates ==
    \A i \in Frames :
        sent[i].bytes[1] = MAVLINK_V1_MAGIC
            => LengthByte(sent[i].bytes) = FullSize(sent[i].message)

\* C8: truncation never discards core payload: every v2 frame is at least
\* core_payload_size + 10 + 2 bytes long, its payload never shorter than the
\* non-extension fields.
C8_CoreNeverTruncated ==
    \A i \in Frames :
        sent[i].bytes[1] = MAVLINK_V2_MAGIC
            => /\ Len(sent[i].bytes) >= CoreSize(sent[i].message) + 10 + 2
               /\ LengthByte(sent[i].bytes) >= CoreSize(sent[i].message)

\* A v2 frame of a message with extension fields whose payload was cut down
\* to the core, the last core byte being zero.
C8_Witness ==
    \E i \in Frames :
        /\ sent[i].bytes[1] = MAVLINK_V2_MAGIC
        /\ DeclaresExtension(sent[i].message)
        /\ Len(sent[i].bytes) = CoreSize(sent[i].message) + 10 + 2
        /\ FullEncoding(sent[i].message)[CoreSize(sent[i].message)] = 0

\* C9: v2 truncation rule: for a message that declares an extension field the
\* encoded payload is the prefix of the full-size encoding of length
\* max(core_size, 1 + index of the last non-zero byte), which is core_size
\* when every extension byte is zero.
C9_TruncationRule ==
    \A i \in Frames :
        LET m == sent[i].message
            full == FullEncoding(m)
            payload == PayloadOfFrame(sent[i].bytes)
        IN  DeclaresExtension(m) =>
              /\ payload = SubSeq(full, 1, Max(CoreSize(m), LastNonZeroPosition(full)))
              /\ LengthByte(sent[i].bytes) = Len(payload)
              /\ (\A k \in (CoreSize(m) + 1)..Len(full) : full[k] = 0)
                     => Len(payload) = CoreSize(m)

\* A payload cut in the middle of the extension fields: longer than the core,
\* shorter than the full size.
C9_Witness ==
    \E i \in Frames :
        /\ DeclaresExtension(sent[i].message)
        /\ LengthByte(sent[i].bytes) > CoreSize(sent[i].message)
        /\ LengthByte(sent[i].bytes) < FullSize(sent[i].message)

\* C10: a payload truncated in the middle of a multi-byte extension field
\* decodes to the same values as the payload zero-padded to the full payload
\* size.
C10_TruncatedDecodesAsPadded ==
    (OneFrameParsed /\ DeclaresExtension(sent[1].message) /\ Len(results) = 1)
        => results[1].payload =
              DecodePayload(FullEncoding(sent[1].message), DefinitionOf(sent[1].message).fields)

(***************************************************************************)
(* Byte-level streaming: one frame, handed to parseBytes one byte per call *)
(***************************************************************************)

FeedByte == wire # <<>> /\ Feed(1)

NextStream == SendOne \/ FeedByte

SpecStream == InitEngine /\ [][NextStream]_vars

\* What a fresh engine returns for the bytes in a single parseBytes call
OneShot(bytes) == ParseLoop(registry, bytes, 0, <<>>).results

\* The frame version the serializer picks for a message, and whether the
\* message id fits the id field of that version
VersionOf(m) ==
    IF m.protocol_version # Undefined THEN m.protocol_version
    ELSE IF DefinitionOf(m).id > 255 THEN 2 ELSE 1

IdFitsVersion(m) == VersionOf(m) = 2 \/ DefinitionOf(m).id <= 255

\* r is the message a receiver is to get for the frame sent[i]: what the
\* frame's bytes parse to on their own, which is a message of the name and
\* addressing that were serialized, with a good checksum.
IsMessageOf(r, i) ==
    /\ <<r>> = OneShot(sent[i].bytes)
    /\ IdFitsVersion(sent[i].message) =>
          /\ r.message_name = sent[i].message.message_name
          /\ r.message_id = DefinitionOf(sent[i].message).id
          /\ r.sequence = NumberOr(sent[i].message.sequence, 0)
          /\ r.protocol_version = VersionOf(sent[i].message)
          /\ r.crc_ok

MaxFrames == 3
ChunkSize == 7

MuxMessages ==
    { Message("HEARTBEAT", [type |-> Num(6), custom_mode |-> Num(12345)], 1),
      Message("MISSION_ACK", [type |-> Num(5), mission_type |-> Num(2)], 2),
      Message("EXT_TAIL", [flags |-> Num(1), count |-> Num(300), wide |-> Num(16777216)], 2),
      Message("PROTOCOL_VERSION", [version |-> Num(200)], Undefined) }

SendNext ==
    \E m \in MuxMessages :
        /\ calls = 0
        /\ Len(sent) < MaxFrames
        /\ Send(Addressed(m, 1, 1, Len(sent)))

FeedChunk == Len(wire) > ChunkSize /\ Feed(ChunkSize)

NextMux == SendNext \/ FeedAll \/ FeedChunk

SpecMux == InitEngine /\ [][NextMux]_vars

AllFrames == \A i \in 1..Len(sent) : sent[i].kind = "frame"

\* C3: ordering/multiplexing: when the stream is the concatenation of N >= 2
\* valid frames, parse_bytes returns exactly N messages in the order of the
\* frames in the stream, and leaves the stream buffer empty.
C3_Multiplexing ==
    (Len(sent) >= 2 /\ AllFrames /\ wire = <<>>) =>
        /\ Len(emitted) = Len(sent)
        /\ \A i \in 1..Len(sent) :
              /\ IsMessageOf(emitted[i], i)
              /\ emitted[i].sequence = i - 1
        /\ calls = 1 => results = emitted
        /\ bufferStart = 0 /\ bufferEnd = 0

\* Three frames were parsed by one parseBytes call.
C3_Witness ==
    /\ Len(sent) = 3 /\ AllFrames /\ wire = <<>> /\ calls = 1
    /\ Len(results) = 3

(***************************************************************************)
(* Resynchronisation: bytes that hold no magic byte, then one frame.       *)
(***************************************************************************)

MaxNoise == 17

\* Byte values that are neither magic byte
NoiseValues == {0, 66, 255}

ResyncMessages ==
    { Message("HEARTBEAT", [type |-> Num(6), autopilot |-> Num(8), base_mode |-> Num(81),
                            custom_mode |-> Num(12345), system_status |-> Num(4),
                            mavlink_version |-> Num(3)], 1),
      Message("HEARTBEAT", [type |-> Num(2), mavlink_version |-> Num(3)], 2),
      Message("MISSION_ACK", [target_system |-> Num(1), type |-> Num(5)], 2),
      Message("EXT_TAIL", [flags |-> Num(1), count |-> Num(300), tail |-> Num(7)], 2) }

SendNoisePrefix ==
    \E n \in 1..MaxNoise, b \in NoiseValues :
        sent = <<>> /\ SendNoise([i \in 1..n |-> b])

SendFrameAfterNoise ==
    \E m \in ResyncMessages :
        /\ Len(sent) = 1 /\ sent[1].kind = "noise"
        /\ Send(Addressed(m, 1, 1, 0))

NextResync == SendNoisePrefix \/ SendFrameAfterNoise \/ FeedAll

SpecResync == InitEngine /\ [][NextResync]_vars

\* C4: resynchronisation after noise: for a stream that begins with noise of
\* any length holding neither magic byte, followed by a valid frame,
\* parse_bytes returns that frame, once, with crc_ok = true, and the noise is
\* discarded: it is not reported as a message and what the stream buffer
\* retains afterwards is no longer than the frame, so that it holds no byte
\* of the noise.
C4_ResyncAfterNoise ==
    (/\ Len(sent) = 2 /\ sent[1].kind = "noise" /\ sent[2].kind = "frame"
     /\ wire = <<>>) =>
        /\ Len(emitted) = 1
        /\ IsMessageOf(emitted[1], 2)
        /\ emitted[1].crc_ok
        /\ bufferEnd - bufferStart <= Len(sent[2].bytes)

(***************************************************************************)
(* Corruption: one frame with a single bit flipped, alone or followed by   *)
(* an intact frame.                                                        *)
(***************************************************************************)

CrcMessages ==
    { Message("HEARTBEAT", [type |-> Num(6), autopilot |-> Num(8), base_mode |-> Num(81),
                            custom_mode |-> Num(12345), system_status |-> Num(4),
                            mavlink_version |-> Num(3)], 1),
      Message("MISSION_ACK", [target_system |-> Num(1), type |-> Num(5),
                              mission_type |-> Num(2)], 2),
      Message("EXT_TAIL", [flags |-> Num(1), count |-> Num(300), wide |-> Num(261)], 2) }

FollowerMessages ==
    { Message("HEARTBEAT", [type |-> Num(2), mavlink_version |-> Num(3)], 1),
      Message("MISSION_ACK", [type |-> Num(5), opaque_id |-> Num(5)], 2) }

FlipBit(bytes, pos, bit) ==
    [bytes EXCEPT ![pos] = BitXor(@, Pow2(bit))]

\* serializeMessage(m), the frame written to the link with the given bit of
\* its byte at position pos (from 1) inverted
SendFlipped(m, pos, bit) ==
    LET r == SerializeMessage(registry, m) IN
    /\ r.ok
    /\ pos \in 1..Len(r.bytes)
    /\ out' = r
    /\ wire' = wire \o FlipBit(r.bytes, pos, bit)
    /\ sent' = Append(sent, [kind |-> "flipped", message |-> m, pos |-> pos, bit |-> bit,
                             original |-> r.bytes, bytes |-> FlipBit(r.bytes, pos, bit)])
    /\ UNCHANGED <<buffer, bufferStart, bufferEnd, registry, results, emitted, calls>>

SendCorrupted ==
    /\ sent = <<>>
    /\ \E m \in CrcMessages, bit \in 0..7 :
          \E pos \in 1..Len(SerializeMessage(registry, Addressed(m, 1, 1, 0)).bytes) :
              SendFlipped(Addressed(m, 1, 1, 0), pos, bit)

SendFollower ==
    \E m \in FollowerMessages :
        /\ Len(sent) = 1 /\ sent[1].kind = "flipped"
        /\ Send(Addressed(m, 1, 1, 1))

NextCrc == SendCorrupted \/ SendFollower \/ FeedAll

SpecCrc == InitEngine /\ [][NextCrc]_vars

HeaderSizeOf(bytes) ==
    IF bytes[1] = MAVLINK_V2_MAGIC THEN MAVLINK_V2_HEADER_SIZE ELSE MAVLINK_V1_HEADER_SIZE

\* Positions (from 1) of the bytes of a frame: the magic byte, the length
\* byte, the incompat_flags byte of a v2 frame, the message id, the header
\* and the payload
MagicPosition == 1
LengthPosition == 2
IncompatPositions(bytes) == IF bytes[1] = MAVLINK_V2_MAGIC THEN {3} ELSE {}
MessageIdPositions(bytes) == IF bytes[1] = MAVLINK_V2_MAGIC THEN {8, 9, 10} ELSE {6}
HeaderOrPayloadPositions(bytes) ==
    1..(HeaderSizeOf(bytes) + bytes[LengthPosition])

\* The flip left the frame complete and unsigned: it hit neither the magic
\* byte, nor the length byte, nor the flag that announces a signature.
FramingIntact(seg) ==
    seg.pos \notin ({MagicPosition, LengthPosition} \cup IncompatPositions(seg.original))

\* C5: a complete frame whose checksum does not match is not dropped: it is
\* emitted, in stream order, with crc_ok = false, and its bytes are
\* consumed; the valid frame that follows it is emitted with crc_ok = true.
C5_BadChecksumEmitted ==
    (/\ Len(sent) = 2 /\ sent[1].kind = "flipped" /\ sent[2].kind = "frame"
     /\ FramingIntact(sent[1])
     /\ wire = <<>>) =>
        /\ Len(emitted) = 2
        /\ <<emitted[1]>> = OneShot(sent[1].bytes)
        /\ ~emitted[1].crc_ok
        /\ IsMessageOf(emitted[2], 2)
        /\ emitted[2].crc_ok
        /\ bufferStart = bufferEnd

\* A frame with a bit of its checksum flipped and the frame after it were
\* parsed by one call.
C5_Witness ==
    /\ Len(sent) = 2 /\ sent[1].kind = "flipped" /\ sent[2].kind = "frame"
    /\ sent[1].pos = Len(sent[1].bytes)
    /\ wire = <<>> /\ calls = 1
    /\ Len(results) = 2 /\ ~results[1].crc_ok /\ results[2].crc_ok

\* A frame with one bit flipped was handed to the parser on its own.
FlippedAlone == Len(sent) = 1 /\ sent[1].kind = "flipped" /\ wire = <<>>

DecodeCut(m, n) ==
    LET cut == Slice(FullEncoding(m), 0, n) IN
    /\ sent = <<>>
    /\ n \in 0..FullSize(m)
    /\ sent' = <<[kind |-> "payload", message |-> m, bytes |-> cut]>>
    /\ out' = [ok |-> TRUE, decoded |-> DecodePayload(cut, DefinitionOf(m).fields)]
    /\ UNCHANGED <<buffer, bufferStart, bufferEnd, registry, wire, results, emitted, calls>>

DecodeAnyCut ==
    /\ sent = <<>>
    /\ \E m \in RoundTripMessages : \E n \in 0..FullSize(m) : DecodeCut(m, n)

NextDecode == DecodeAnyCut

SpecDecode == InitEngine /\ [][NextDecode]_vars

PayloadDecoded == Len(sent) = 1 /\ sent[1].kind = "payload"

\* The offset of the i-th field of a wire-ordered list in the full payload
WireOffset(sortedFields, i) == SumSizes(SubSeq(sortedFields, 1, i - 1))

\* The default values of the field types
TypeDefaults == {Num(0), Big(0), Str(<<>>), Str(<<0>>), Arr(<<>>)}

\* C11: decode_payload is total: for every payload length from 0 up to the
\* full payload size, the result holds a value for every declared field
\* name, and every field that lies wholly beyond the end of the payload
\* receives its type's default value.
C11_DecodeTotal ==
    PayloadDecoded =>
        LET fields == SortFieldsByWireOrder(DefinitionOf(sent[1].message).fields)
            decoded == out.decoded
        IN  /\ DOMAIN decoded = {fields[i].name : i \in 1..Len(fields)}
            /\ \A i \in 1..Len(fields) :
                  WireOffset(fields, i) >= Len(sent[1].bytes) =>
                      /\ decoded[fields[i].name] = GetFieldDefaultValue(fields[i])
                      /\ decoded[fields[i].name] \in TypeDefaults

(***************************************************************************)
(* Wire order: sortFieldsByWireOrder applied to field lists of up to       *)
(* MaxFields fields drawn from FieldKinds, core or extension.              *)
(***************************************************************************)

MaxFields == 3

FieldNames == <<"f0", "f1", "f2", "f3", "f4", "f5">>

\* A type and an arrayLength (0: none)
FieldKinds ==
    { <<Plain("uint8_t"), 0>>, <<Plain("uint16_t"), 0>>, <<Plain("uint32_t"), 0>>,
      <<Plain("uint64_t"), 0>>, <<Plain("uint8_t"), 100>>, <<Inline("char", 10), 0>> }

FieldOfKind(name, kind, extension) ==
    [name |-> name, type |-> kind[1], arrayLength |-> kind[2], extension |-> extension]

\* The field lists of length n: a kind and an extension mark per position
FieldLists(kinds, n) ==
    { [i \in 1..n |-> FieldOfKind(FieldNames[i], choice[i][1], choice[i][2])] :
        choice \in [1..n -> kinds \X BOOLEAN] }

\* sortFieldsByWireOrder applied to a field list, and to its own result
SortList(fields) ==
    /\ sent = <<>>
    /\ sent' = <<[kind |-> "fields", fields |-> fields]>>
    /\ out' = [ok |-> TRUE,
               sorted |-> SortFieldsByWireOrder(fields),
               twice |-> SortFieldsByWireOrder(SortFieldsByWireOrder(fields))]
    /\ UNCHANGED <<buffer, bufferStart, bufferEnd, registry, wire, results, emitted, calls>>

SortAnyList ==
    /\ sent = <<>>
    /\ \E n \in 0..MaxFields : \E fields \in FieldLists(FieldKinds, n) : SortList(fields)

NextSort == SortAnyList

SpecSort == InitEngine /\ [][NextSort]_vars

ListSorted == Len(sent) = 1 /\ sent[1].kind = "fields" /\ "sorted" \in DOMAIN out

\* Position of a field in the declared list (names are distinct)
DeclaredAt(fields, field) == CHOOSE i \in 1..Len(fields) : fields[i] = field

\* a goes before b in wire order
WireBefore(fields, a, b) ==
    IF a.extension \/ b.extension
    THEN IF a.extension /\ b.extension
         THEN DeclaredAt(fields, a) < DeclaredAt(fields, b)
         ELSE b.extension
    ELSE \/ GetTypeSize(GetBaseType(a.type)) > GetTypeSize(GetBaseType(b.type))
         \/ /\ GetTypeSize(GetBaseType(a.type)) = GetTypeSize(GetBaseType(b.type))
            /\ DeclaredAt(fields, a) < DeclaredAt(fields, b)

\* C12: wire order: sortFieldsByWireOrder returns a permutation of the field
\* list in which the non-extension fields come first, by element size
\* descending (array length ignored) with ties in declaration order, and the
\* extension fields follow in declaration order.
C12_WireOrder ==
    ListSorted =>
        LET fields == sent[1].fields
            sorted == out.sorted
        IN  /\ Len(sorted) = Len(fields)
            /\ {sorted[i] : i \in 1..Len(sorted)} = {fields[i] : i \in 1..Len(fields)}
            /\ \A i, j \in 1..Len(sorted) : i < j => WireBefore(fields, sorted[i], sorted[j])

\* A uint8_t[100] array declared before a uint32_t scalar was sorted after it.
C12_Witness ==
    /\ ListSorted
    /\ Len(sent[1].fields) = 2
    /\ sent[1].fields[1].arrayLength = 100 /\ ~sent[1].fields[1].extension
    /\ sent[1].fields[2].type = Plain("uint32_t") /\ ~sent[1].fields[2].extension
    /\ out.sorted = <<sent[1].fields[2], sent[1].fields[1]>>

\* C13: the wire-order sort is idempotent: sorting the sorted list again
\* gives the same list, element for element.
C13_SortIdempotent ==
    ListSorted => out.twice = out.sorted

\* A list that the sort reorders, with two core fields of equal element
\* size, was sorted once and twice.
C13_Witness ==
    /\ ListSorted
    /\ out.sorted # sent[1].fields
    /\ \E i, j \in 1..Len(sent[1].fields) :
          /\ i < j
          /\ ~sent[1].fields[i].extension /\ ~sent[1].fields[j].extension
          /\ GetFieldTypeSize(sent[1].fields[i]) = GetFieldTypeSize(sent[1].fields[j])
    /\ out.twice = out.sorted

(***************************************************************************)
(* Field offsets: encodePayload applied to field lists of up to            *)
(* MaxEncodedFields core fields, scalars and arrays of both forms.         *)
(***************************************************************************)

MaxEncodedFields == 2

EncodedKinds ==
    { <<Plain("uint8_t"), 0>>, <<Plain("uint32_t"), 0>>, <<Plain("uint8_t"), 3>>,
      <<Plain("char"), 3>>, <<Inline("char", 4), 0>>, <<Inline("uint8_t", 4), 0>>,
      <<Inline("uint16_t", 2), 0>> }

\* A value of the field's type, or the property left out
ValuesOf(field) ==
    IF field.type.base = "char" THEN {Undef, Str(<<97, 98>>)}
    ELSE IF field.arrayLength # 0 \/ HasBrackets(field.type)
    THEN {Undef, Arr(<<Num(1), Num(2), Num(3)>>)}
    ELSE {Undef, Num(7)}

PayloadsOf(fields) ==
    { Strip([name \in {fields[i].name : i \in 1..Len(fields)} |->
                choice[CHOOSE i \in 1..Len(fields) : fields[i].name = name]]) :
        choice \in { c \in [1..Len(fields) -> {Undef, Str(<<97, 98>>), Num(7),
                                                Arr(<<Num(1), Num(2), Num(3)>>)}] :
                       \A i \in 1..Len(fields) : c[i] \in ValuesOf(fields[i]) } }

\* The second loop of encodePayload: the offset at which every field is
\* written and the bytesWritten that encodeField returns for it.
RECURSIVE EncodeOffsets(_, _, _, _, _)
EncodeOffsets(message, sortedFields, i, offset, trace) ==
    IF i > Len(sortedFields) THEN trace
    ELSE LET bytesWritten == Len(EncodeField(sortedFields[i], Get(message, sortedFields[i].name)))
         IN  EncodeOffsets(message, sortedFields, i + 1, offset + bytesWritten,
                           Append(trace, [name |-> sortedFields[i].name, offset |-> offset,
                                          bytesWritten |-> bytesWritten]))

\* encodePayload applied to a message object and a field list
EncodeList(fields, message) ==
    /\ sent = <<>>
    /\ sent' = <<[kind |-> "encode", fields |-> fields, message |-> message]>>
    /\ out' = [ok |-> TRUE,
               encoded |-> EncodePayload(message, fields),
               trace |-> EncodeOffsets(message, SortFieldsByWireOrder(fields), 1, 0, <<>>)]
    /\ UNCHANGED <<buffer, bufferStart, bufferEnd, registry, wire, results, emitted, calls>>

EncodeAnyList ==
    /\ sent = <<>>
    /\ \E n \in 1..MaxEncodedFields :
          \E fields \in { l \in FieldLists(EncodedKinds, n) : \A i \in 1..n : ~l[i].extension } :
              \E message \in PayloadsOf(fields) : EncodeList(fields, message)

NextEncode == EncodeAnyList

SpecEncode == InitEngine /\ [][NextEncode]_vars

ListEncoded == Len(sent) = 1 /\ sent[1].kind = "encode"

\* C14: every field is encoded at its wire offset: encode_payload writes each
\* field at the sum of the full sizes of the fields before it in wire order,
\* and the number of bytes written for a field equals its declared field
\* size, for arrays given by array_length and for inline base[N] types.
C14_FieldsAtWireOffset ==
    ListEncoded =>
        LET sorted == SortFieldsByWireOrder(sent[1].fields) IN
        /\ Len(out.trace) = Len(sorted)
        /\ \A i \in 1..Len(sorted) :
              /\ out.trace[i].name = sorted[i].name
              /\ out.trace[i].offset = WireOffset(sorted, i)
              /\ out.trace[i].bytesWritten = GetFieldSize(sorted[i])

(***************************************************************************)
(* Version and addressing: messages with and without system_id,            *)
(* component_id, sequence and protocol_version, serialized and parsed.     *)
(***************************************************************************)

AddressedMessages ==
    { Message("HEARTBEAT", [type |-> Num(6), autopilot |-> Num(8), base_mode |-> Num(81),
                            custom_mode |-> Num(12345), system_status |-> Num(4),
                            mavlink_version |-> Num(3)], v) : v \in Versions }
    \cup { Message("MISSION_ACK", [type |-> Num(5), opaque_id |-> Num(305419896)], v) :
             v \in Versions }
    \cup { Message("PROTOCOL_VERSION", [version |-> Num(200), min_version |-> Num(100)], v) :
             v \in Versions }

SystemIds == {Undefined, 0, 1, 255}
ComponentIds == {Undefined, 1, 190}
Sequences == {Undefined, 0, 42, 255}

SendAddressed ==
    /\ sent = <<>>
    /\ \E m \in AddressedMessages, sys \in SystemIds, comp \in ComponentIds, seq \in Sequences :
          Send(Addressed(m, sys, comp, seq))

NextAddress == SendAddressed \/ FeedAll

SpecAddress == InitEngine /\ [][NextAddress]_vars

OneFrameSent == Len(sent) = 1 /\ sent[1].kind = "frame"

\* The message id a receiver reads from the header of a frame
HeaderMessageId(bytes) ==
    IF bytes[1] = MAVLINK_V2_MAGIC
    THEN bytes[8] + 256 * bytes[9] + 65536 * bytes[10]
    ELSE bytes[6]

\* C15: create_frame emits a v2 frame (magic 0xFD, 24-bit message id)
\* whenever the message id is greater than 255, whatever protocol version
\* the caller passed, so that the message id a receiver parses from the
\* frame equals the id that was serialized.
C15_HighIdsUseV2 ==
    (OneFrameSent /\ DefinitionOf(sent[1].message).id > 255) =>
        /\ sent[1].bytes[1] = MAVLINK_V2_MAGIC
        /\ HeaderMessageId(sent[1].bytes) = DefinitionOf(sent[1].message).id
        /\ (wire = <<>> /\ calls = 1) =>
              /\ Len(results) = 1
              /\ results[1].message_id = DefinitionOf(sent[1].message).id

\* The sequence, system id and component id bytes of a frame
AddressingOf(bytes) ==
    IF bytes[1] = MAVLINK_V2_MAGIC
    THEN [sequence |-> bytes[5], system_id |-> bytes[6], component_id |-> bytes[7]]
    ELSE [sequence |-> bytes[3], system_id |-> bytes[4], component_id |-> bytes[5]]

\* C16: version and addressing selection in serialize_message: the frame
\* uses the caller's protocol_version when one is given, otherwise v2 if and
\* only if the message id is greater than 255; system_id, component_id and
\* sequence are the caller's values, defaulting to 1, 1 and 0 when absent.
C16_VersionAndAddressing ==
    OneFrameSent =>
        LET m == sent[1].message
            bytes == sent[1].bytes
            version == IF bytes[1] = MAVLINK_V2_MAGIC THEN 2
                       ELSE IF bytes[1] = MAVLINK_V1_MAGIC THEN 1 ELSE 0
        IN  /\ m.protocol_version # Undefined => version = m.protocol_version
            /\ m.protocol_version = Undefined =>
                  (version = 2 <=> DefinitionOf(m).id > 255) /\ version \in {1, 2}
            /\ AddressingOf(bytes).system_id =
                  (IF m.system_id = Undefined THEN 1 ELSE m.system_id)
            /\ AddressingOf(bytes).component_id =
                  (IF m.component_id = Undefined THEN 1 ELSE m.component_id)
            /\ AddressingOf(bytes).sequence =
                  (IF m.sequence = Undefined THEN 0 ELSE m.sequence)

\* A message with id below 256 was serialized as v2 on the caller's demand,
\* with the caller's addressing.
C16_Witness ==
    /\ OneFrameSent
    /\ sent[1].message.message_name = "HEARTBEAT"
    /\ sent[1].message.protocol_version = 2
    /\ sent[1].message.system_id = 255 /\ sent[1].message.component_id = 190
    /\ sent[1].message.sequence = 42
    /\ sent[1].bytes[1] = MAVLINK_V2_MAGIC

\* The frame laid out byte by byte from the values the serializer hands to
\* createFrame and the payload the frame carries
LayoutOf(m, bytes) ==
    LET id == DefinitionOf(m).id
        payload == PayloadOfFrame(bytes)
        seq == IF m.sequence = Undefined THEN 0 ELSE m.sequence
        sys == IF m.system_id = Undefined THEN 1 ELSE m.system_id
        comp == IF m.component_id = Undefined THEN 1 ELSE m.component_id
        header == IF bytes[1] = MAVLINK_V2_MAGIC
                  THEN <<253, Len(payload), 0, 0, seq, sys, comp,
                         id % 256, (id \div 256) % 256, (id \div 65536) % 256>>
                  ELSE <<254, Len(payload), seq, sys, comp, id % 256>>
        covered == Tail(header) \o payload
        crc == Calculate(covered, GetCrcExtra(registry, id))
    IN  header \o payload \o <<crc % 256, crc \div 256>>

\* C17: emitted frame layout: v1 is [0xFE, len, seq, sysid, compid, msgid]
\* ++ payload ++ [crc low, crc high], v2 is [0xFD, len, 0, 0, seq, sysid,
\* compid, id bits 0-7, 8-15, 16-23] ++ payload ++ [crc low, crc high],
\* with len the payload length and crc calculated over every byte after the
\* magic up to the last payload byte, seeded with crc_extra.
C17_FrameLayout ==
    OneFrameSent =>
        /\ sent[1].bytes = LayoutOf(sent[1].message, sent[1].bytes)
        /\ sent[1].bytes[2] = Len(sent[1].bytes)
                               - (IF sent[1].bytes[1] = MAVLINK_V2_MAGIC THEN 10 ELSE 6) - 2
        /\ PayloadOfFrame(sent[1].bytes)
              = EncodePayload(Completed(sent[1].message), DefinitionOf(sent[1].message).fields)

\* Scenario S1: HEARTBEAT as v1 with sequence 42 from system 1, component 1.
C17_Witness ==
    /\ OneFrameSent
    /\ SubSeq(sent[1].bytes, 1, 15)
          = <<254, 9, 42, 1, 1, 0, 57, 48, 0, 0, 6, 8, 81, 4, 3>>
    /\ Len(sent[1].bytes) = 17

(***************************************************************************)
(* Signed v2 frames: a v2 frame with bit 0 of incompat_flags set, its      *)
(* checksum over the flagged header, and 13 signature bytes after it,      *)
(* handed to the parser whole or cut in two.                               *)
(***************************************************************************)

SignedMessages ==
    { Message("HEARTBEAT", [type |-> Num(6), autopilot |-> Num(8), base_mode |-> Num(81),
                            custom_mode |-> Num(12345), system_status |-> Num(4),
                            mavlink_version |-> Num(3)], 2),
      Message("MISSION_ACK", [target_system |-> Num(1), type |-> Num(5),
                              mission_type |-> Num(2)], 2),
      Message("PROTOCOL_VERSION", [version |-> Num(200)], Undefined) }

Signatures ==
    { [i \in 1..MAVLINK_SIGNATURE_SIZE |-> i],
      [i \in 1..MAVLINK_SIGNATURE_SIZE |-> 200] }

\* The v2 frame of a message as a signing sender writes it: incompat_flags
\* 0x01, the checksum over length byte through payload, then the signature.
\* goodChecksum = FALSE inverts the low bit of the checksum.
SignedFrame(frame, crcExtra, signature, goodChecksum) ==
    LET body == [SubSeq(frame, 1, Len(frame) - MAVLINK_CHECKSUM_SIZE) EXCEPT ![3] = 1]
        crc == Calculate(Tail(body), crcExtra)
        checksum == IF goodChecksum THEN crc ELSE BitXor(crc, 1)
    IN  body \o <<checksum % 256, checksum \div 256>> \o signature

SendSigned(m, signature, goodChecksum) ==
    LET r == SerializeMessage(registry, m)
        bytes == SignedFrame(r.bytes, GetCrcExtra(registry, DefinitionOf(m).id),
                             signature, goodChecksum)
    IN
    /\ r.ok
    /\ out' = r
    /\ wire' = wire \o bytes
    /\ sent' = Append(sent, [kind |-> "signed", message |-> m, bytes |-> bytes,
                             signature |-> signature, goodChecksum |-> goodChecksum])
    /\ UNCHANGED <<buffer, bufferStart, bufferEnd, registry, results, emitted, calls>>

SendAnySigned ==
    /\ sent = <<>>
    /\ \E m \in SignedMessages, signature \in Signatures, goodChecksum \in BOOLEAN :
          SendSigned(Addressed(m, 1, 1, 0), signature, goodChecksum)

\* A first call that delivers only part of what is on the link
FeedPart == calls = 0 /\ \E k \in 1..(Len(wire) - 1) : Feed(k)

NextSigned == SendAnySigned \/ FeedPart \/ FeedAll

SpecSigned == InitEngine /\ [][NextSigned]_vars

SignedSent == Len(sent) = 1 /\ sent[1].kind = "signed"

\* C18: signed v2 frames wait for their signature: while fewer than 13 bytes
\* have arrived after the checksum of a frame with bit 0 of incompat_flags
\* set, parse_bytes emits nothing for that frame and consumes none of it.
C18_SignedFrameWaits ==
    (SignedSent /\ calls >= 1 /\ wire # <<>>) =>
        /\ results = <<>>
        /\ emitted = <<>>
        /\ GetContents(StreamBufferState)
              = SubSeq(sent[1].bytes, 1, Len(sent[1].bytes) - Len(wire))

\* C19: parsing a complete signed v2 frame: the frame is returned with the
\* 13 bytes after the checksum as its signature, all of header, payload,
\* checksum and signature consumed, and crc_ok = true if and only if the
\* checksum equals the CRC over the bytes from the length byte through the
\* last payload byte (signature excluded).
C19_SignedFrameParsed ==
    (SignedSent /\ calls = 1 /\ wire = <<>>) =>
        /\ Len(results) = 1
        /\ results[1].signature = sent[1].signature
        /\ results[1].message_name = sent[1].message.message_name
        /\ results[1].crc_ok = sent[1].goodChecksum
        /\ bufferStart = bufferEnd

(***************************************************************************)
(* Partial frames: a frame, alone or after three bytes of noise, delivered *)
(* in two calls cut at any byte.                                           *)
(***************************************************************************)

PartialMessages ==
    { Message("HEARTBEAT", [type |-> Num(6), autopilot |-> Num(8), base_mode |-> Num(81),
                            custom_mode |-> Num(12345), system_status |-> Num(4),
                            mavlink_version |-> Num(3)], 1),
      Message("HEARTBEAT", [type |-> Num(2), mavlink_version |-> Num(3)], 2),
      Message("MISSION_ACK", [target_system |-> Num(1), type |-> Num(5)], 2),
      Message("NAMED_VALUE_INT", [time_boot_ms |-> Num(1000), name |-> Str(<<97, 98>>),
                                  value |-> Num(-2)], 1),
      Message("PROTOCOL_VERSION", [version |-> Num(200)], Undefined) }

SendShortNoise == sent = <<>> /\ SendNoise(<<0, 66, 255>>)

SendPartialFrame ==
    /\ calls = 0
    /\ sent = <<>> \/ (Len(sent) = 1 /\ sent[1].kind = "noise")
    /\ \E m \in PartialMessages : Send(Addressed(m, 1, 1, 0))

FeedFirstPart == Len(sent) >= 1 /\ sent[Len(sent)].kind = "frame" /\ FeedPart

NextPartial == SendShortNoise \/ SendPartialFrame \/ FeedFirstPart \/ FeedAll

SpecPartial == InitEngine /\ [][NextPartial]_vars

\* The frame is the last thing written to the link
FrameLast == Len(sent) >= 1 /\ sent[Len(sent)].kind = "frame"

NoiseLength == IF Len(sent) = 2 THEN Len(sent[1].bytes) ELSE 0

\* Bytes of the frame delivered so far
FrameBytesFed == Len(sent[Len(sent)].bytes) - Len(wire)

\* The last n elements of a sequence
Suffix(seq, n) == SubSeq(seq, Len(seq) - n + 1, Len(seq))

\* C20: incomplete frames are retained, never dropped: while the buffered
\* bytes end inside a frame, parse_bytes returns no message for it and keeps
\* every byte from the magic byte onward; once the remaining bytes are fed
\* in a later call the frame is emitted intact.
C20_IncompleteFrameRetained ==
    (FrameLast /\ calls >= 1) =>
        IF wire # <<>>
        THEN /\ emitted = <<>>
             /\ FrameBytesFed > 0 =>
                   /\ bufferEnd - bufferStart >= FrameBytesFed
                   /\ Suffix(GetContents(StreamBufferState), FrameBytesFed)
                         = SubSeq(sent[Len(sent)].bytes, 1, FrameBytesFed)
        ELSE /\ Len(emitted) = 1
             /\ IsMessageOf(emitted[1], Len(sent))
             /\ emitted[1].crc_ok

\* A v2 frame after noise was cut inside its payload, nothing was returned,
\* and the second call returned the frame.
C20_Witness ==
    /\ Len(sent) = 2 /\ sent[1].kind = "noise" /\ sent[2].kind = "frame"
    /\ sent[2].bytes[1] = MAVLINK_V2_MAGIC
    /\ calls = 2 /\ wire = <<>>
    /\ Len(results) = 1 /\ results[1].crc_ok
    /\ Len(emitted) = 1

(***************************************************************************)
(* Unknown message ids: a frame built by createFrame for an id the catalog *)
(* does not hold, with the checksum of some CRC_EXTRA or a checksum made   *)
(* wrong, alone or followed by a frame of the catalog.                     *)
(***************************************************************************)

\* Ids absent from the dialect: those a v1 frame can carry and wider ones
UnknownIds(version) == IF version = 1 THEN {1, 44, 255} ELSE {1, 44, 255, 301, 70000}

UnknownPayloads == { <<>>, <<1, 2, 3>>, <<0, 253, 254, 0>> }

\* CRC_EXTRA values a sender of another dialect may use; 50 is HEARTBEAT's
ForeignCrcExtras == {0, 50}

\* createFrame(id, payload, 1, 1, 0, crcExtra, version) written to the link,
\* with the low bit of its checksum inverted when goodChecksum is FALSE
SendUnknown(id, payload, crcExtra, version, goodChecksum) ==
    LET frame == CreateFrame(id, payload, 1, 1, 0, crcExtra, version)
        bytes == IF goodChecksum THEN frame
                 ELSE FlipBit(frame, Len(frame) - 1, 0)
    IN
    /\ wire' = wire \o bytes
    /\ sent' = Append(sent, [kind |-> "unknown", id |-> id, payload |-> payload,
                             bytes |-> bytes])
    /\ UNCHANGED <<buffer, bufferStart, bufferEnd, registry, results, emitted, calls, out>>

SendAnyUnknown ==
    /\ sent = <<>>
    /\ \E version \in {1, 2}, payload \in UnknownPayloads,
          crcExtra \in ForeignCrcExtras, goodChecksum \in BOOLEAN :
          \E id \in UnknownIds(version) :
              SendUnknown(id, payload, crcExtra, version, goodChecksum)

SendKnownAfterUnknown ==
    \E m \in FollowerMessages :
        /\ calls = 0
        /\ Len(sent) = 1 /\ sent[1].kind = "unknown"
        /\ Send(Addressed(m, 1, 1, 1))

NextUnknown == SendAnyUnknown \/ SendKnownAfterUnknown \/ FeedPart \/ FeedAll

SpecUnknown == InitEngine /\ [][NextUnknown]_vars

UnknownSent == Len(sent) >= 1 /\ sent[1].kind = "unknown"

\* C21: unknown message ids are data, not errors: a complete frame whose
\* message id is absent from the catalog is returned by parse_bytes as a
\* message named UNKNOWN_<id> whose payload is { raw_payload: the payload
\* bytes of the frame }, with crc_ok = false whatever its checksum, and
\* parsing continues with the bytes that follow it.
C21_UnknownIdEmitted ==
    (UnknownSent /\ wire = <<>> /\ calls >= 1) =>
        /\ Len(emitted) = Len(sent)
        /\ emitted[1].message_name = "UNKNOWN_" \o ToString(sent[1].id)
        /\ emitted[1].message_id = sent[1].id
        /\ emitted[1].payload = ("raw_payload" :> ArrayFrom(sent[1].payload))
        /\ ~emitted[1].crc_ok
        /\ Len(sent) = 2 => (IsMessageOf(emitted[2], 2) /\ emitted[2].crc_ok)
        /\ bufferStart = bufferEnd

\* A v2 frame of id 301 carrying the checksum of CRC_EXTRA 50 was parsed in
\* one call together with the frame after it.
C21_Witness ==
    /\ Len(sent) = 2 /\ sent[1].kind = "unknown" /\ sent[1].id = 301
    /\ sent[1].bytes = CreateFrame(301, sent[1].payload, 1, 1, 0, 50, 2)
    /\ wire = <<>> /\ calls = 1
    /\ Len(results) = 2
    /\ results[1].message_name = "UNKNOWN_301" /\ ~results[1].crc_ok
    /\ results[2].crc_ok

(***************************************************************************)
(* Calls of the serializer: serializeMessage and completeMessage handed    *)
(* registered and unregistered names and payloads of every JavaScript      *)
(* type, before, between and after the calls that feed the parser.         *)
(***************************************************************************)

Null == [t |-> "null"]

\* { message_name: name, payload: payload }
RawMessage(name, payload) ==
    [message_name |-> name, payload |-> payload, system_id |-> Undefined,
     component_id |-> Undefined, sequence |-> Undefined, protocol_version |-> Undefined]

RegisteredNames == {"HEARTBEAT", "MISSION_ACK"}
UnregisteredNames == {"NOT_A_MESSAGE", "heartbeat"}

\* No payload, null, numbers, strings, arrays
NonMappingPayloads ==
    { Undef, Null, Num(0), Num(5), Str(<<>>), Str(<<97>>), Arr(<<>>), Arr(<<Num(6), Num(8)>>) }

MappingPayloads == { Obj(EmptyObject), Obj([type |-> Num(6)]) }

SerializerInputs ==
    { RawMessage(name, payload) :
        name \in RegisteredNames \cup UnregisteredNames,
        payload \in NonMappingPayloads \cup MappingPayloads }

\* serializer.serializeMessage(m): the call and its outcome are recorded, and
\* the first frame returned goes to the link
SerializeCall(m) ==
    LET r == SerializeMessage(registry, m) IN
    /\ out' = [call |-> "serializeMessage", input |-> m, outcome |-> r]
    /\ IF r.ok
       THEN /\ sent = <<>>
            /\ wire' = wire \o r.bytes
            /\ sent' = Append(sent, [kind |-> "frame", message |-> m, bytes |-> r.bytes])
       ELSE UNCHANGED <<wire, sent>>
    /\ UNCHANGED <<buffer, bufferStart, bufferEnd, registry, results, emitted, calls>>

SerializeAny == \E m \in SerializerInputs : SerializeCall(m)

NextSerialize == SerializeAny \/ FeedPart \/ FeedAll

SpecSerialize == InitEngine /\ [][NextSerialize]_vars

Called(name) == "call" \in DOMAIN out /\ out.call = name

Registered(m) == m.message_name \in DOMAIN registry.definitionsByName

\* C22: serialize_message with a message_name that is absent from the
\* catalog fails with UnknownMessage whatever the payload is, returns no
\* bytes, and leaves the catalog and the stream buffer unchanged.
C22_UnknownNameFails ==
    [][ (out' # out /\ out'.call = "serializeMessage" /\ ~Registered(out'.input)) =>
            /\ out'.outcome = Thrown(UnknownMessage)
            /\ UNCHANGED <<registry, buffer, bufferStart, bufferEnd, wire, sent>> ]_vars

\* An unregistered name with a well-formed payload was refused while half a
\* frame sat in the stream buffer.
C22_Witness ==
    /\ Called("serializeMessage")
    /\ out.input.message_name = "NOT_A_MESSAGE"
    /\ out.input.payload = Obj([type |-> Num(6)])
    /\ out.outcome = Thrown(UnknownMessage)
    /\ bufferEnd > bufferStart

\* C23: serialize_message for a registered name fails with MalformedMessage,
\* returning no bytes, whenever the input has no payload or its payload is
\* not a mapping: null, a number, a string, or an ordered sequence.
C23_NonMappingPayloadFails ==
    (Called("serializeMessage") /\ Registered(out.input)
       /\ out.input.payload.t # "object") =>
        out.outcome = Thrown(MalformedMessage)

(***************************************************************************)
(* Messages without extension fields                                       *)
(***************************************************************************)

AllZero(bytes) == \A i \in 1..Len(bytes) : bytes[i] = 0

\* C24: messages without extension fields are never truncated: for a message
\* that declares no extension field the payload has the full payload size
\* for every field assignment, all-zero and trailing-zero ones included, in
\* both protocol versions.
C24_NoExtensionNoTruncation ==
    \A i \in Frames :
        ~DeclaresExtension(sent[i].message) =>
            /\ LengthByte(sent[i].bytes) = FullSize(sent[i].message)
            /\ Len(PayloadOfFrame(sent[i].bytes)) = FullSize(sent[i].message)
            /\ Len(EncodePayload(Completed(sent[i].message),
                                 DefinitionOf(sent[i].message).fields))
                  = FullSize(sent[i].message)

\* A v2 frame of a message without extension fields whose payload ends in
\* zero bytes went out at full size.
C24_Witness ==
    \E i \in Frames :
        /\ ~DeclaresExtension(sent[i].message)
        /\ sent[i].bytes[1] = MAVLINK_V2_MAGIC
        /\ LastNonZeroPosition(PayloadOfFrame(sent[i].bytes)) \in 1..(FullSize(sent[i].message) - 1)
        /\ LengthByte(sent[i].bytes) = FullSize(sent[i].message)

\* The HEARTBEAT of scenario S4: protocol_version 2 and every field zero
ZeroHeartbeatSent ==
    /\ Len(sent) = 1 /\ sent[1].kind = "frame"
    /\ sent[1].message.message_name = "HEARTBEAT"
    /\ sent[1].message.protocol_version = 2
    /\ \A k \in DOMAIN Completed(sent[1].message) :
          Completed(sent[1].message)[k] = Num(0)

\* C25 as stated: scenario S4: a HEARTBEAT (one uint32 and five uint8
\* fields, no extension fields) serialized with protocol_version = 2 and
\* every field zero is emitted with payload_length = 4.
C25_ZeroHeartbeatLength4 ==
    ZeroHeartbeatSent => LengthByte(sent[1].bytes) = 4

\* C25 amended: the HEARTBEAT of scenario S4 is emitted with
\* payload_length = 9, its full payload size, all nine payload bytes zero.
C25_ZeroHeartbeatFullLength ==
    ZeroHeartbeatSent =>
        /\ LengthByte(sent[1].bytes) = 9
        /\ PayloadOfFrame(sent[1].bytes) = Zeros(9)
        /\ Len(sent[1].bytes) = MAVLINK_V2_HEADER_SIZE + 9 + MAVLINK_CHECKSUM_SIZE

\* The all-zero v2 HEARTBEAT was serialized and parsed back.
C25_Witness ==
    /\ ZeroHeartbeatSent
    /\ sent[1].bytes[1] = MAVLINK_V2_MAGIC
    /\ OneFrameParsed
    /\ Len(results) = 1 /\ results[1].crc_ok
    /\ results[1].payload.custom_mode = Num(0)

(***************************************************************************)
(* completeMessage: called with full, partial and empty payloads, with     *)
(* undeclared properties, null and undefined values, while the parser      *)
(* holds nothing, half a frame, or has parsed a frame.                     *)
(***************************************************************************)

CompleteInputs ==
    { RawMessage(name, Obj(EmptyObject)) : name \in DOMAIN LoadedRegistry.definitionsByName }
    \cup MessagesOf("HEARTBEAT", HeartbeatPayloads, {Undefined, 2})
    \cup MessagesOf("MISSION_ACK",
                    { p \in MissionAckPayloads : Get(p, "type") = Num(5) }, {Undefined})
    \cup MessagesOf("NAMED_VALUE_INT", NamedValueIntPayloads, {Undefined})
    \cup MessagesOf("PROTOCOL_VERSION", ProtocolVersionPayloads, {Undefined})
    \cup { RawMessage("HEARTBEAT", Obj([type |-> Str(<<97>>), vendor_note |-> Num(1)])),
           RawMessage("HEARTBEAT", Obj([type |-> Undef, autopilot |-> Null])),
           RawMessage("EXT_TAIL", Obj([tail |-> Num(0)])),
           Addressed(RawMessage("PROTOCOL_VERSION", Obj([version |-> Num(200)])), 7, 8, 9) }

\* serializer.completeMessage(m): the call and its outcome are recorded
CompleteCall(m) ==
    /\ out' = [call |-> "completeMessage", input |-> m,
               outcome |-> CompleteMessage(registry, m)]
    /\ UNCHANGED <<buffer, bufferStart, bufferEnd, registry, wire, sent, results, emitted,
                   calls>>

CompleteAny == \E m \in CompleteInputs : CompleteCall(m)

SerializeOneFrame == \E m \in FollowerMessages : SerializeCall(Addressed(m, 1, 1, 0))

NextComplete == SerializeOneFrame \/ CompleteAny \/ FeedPart \/ FeedAll

SpecComplete == InitEngine /\ [][NextComplete]_vars

\* The default a missing field is filled with: 0 for numerics, 0n for 64-bit
\* integers, '\0' for a single char, '' for an inline char[N], and the empty
\* sequence for an array
ExpectedDefault(field) ==
    IF field.arrayLength > 1 THEN Arr(<<>>)
    ELSE IF field.type.base = "char" THEN (IF field.type.n > 0 THEN Str(<<>>) ELSE Str(<<0>>))
    ELSE IF field.type.base \in {"uint64_t", "int64_t"} THEN Big(0)
    ELSE Num(0)

\* The outcome o of completeMessage(m) is m with every missing declared
\* field of its payload filled in and nothing else changed.
CompletedFrom(m, o) ==
    LET fields == DefinitionOf(m).fields
        given == m.payload.v
        supplied == {k \in DOMAIN given : given[k] # Undef}
    IN  /\ o.ok
        /\ o.message = [m EXCEPT !.payload = o.message.payload]
        /\ o.message.payload.t = "object"
        /\ \A i \in 1..Len(fields) : fields[i].name \in DOMAIN o.message.payload.v
        /\ \A k \in supplied : o.message.payload.v[k] = given[k]
        /\ \A i \in 1..Len(fields) :
              fields[i].name \notin supplied =>
                  o.message.payload.v[fields[i].name] = ExpectedDefault(fields[i])
        /\ DOMAIN o.message.payload.v
              = DOMAIN given \cup {fields[i].name : i \in 1..Len(fields)}

\* C26: complete_message is pure: it returns a new message whose payload
\* contains every declared field, keeps every value the caller supplied
\* unchanged, fills only the missing fields with their defaults, and leaves
\* the catalog and the stream buffer unchanged.
C26_CompleteMessagePure ==
    [][ (out' # out /\ out'.call = "completeMessage") =>
            /\ CompletedFrom(out'.input, out'.outcome)
            /\ UNCHANGED <<registry, buffer, bufferStart, bufferEnd, wire, sent, results,
                           emitted, calls>> ]_vars

\* A MISSION_ACK given three of its five fields was completed while half a
\* frame sat in the stream buffer: the three values kept, both extension
\* fields filled with 0.
C26_Witness ==
    /\ Called("completeMessage")
    /\ out.input.message_name = "MISSION_ACK"
    /\ DOMAIN out.input.payload.v = {"target_system", "target_component", "type"}
    /\ out.outcome.ok
    /\ out.outcome.message.payload.v.type = Num(5)
    /\ out.outcome.message.payload.v.opaque_id = Num(0)
    /\ bufferEnd > bufferStart

(***************************************************************************)
(* Strings in char arrays: a string of up to MaxChars + 1 UTF-16 code      *)
(* units encoded into a char array of 2..MaxChars elements, declared       *)
(* inline (char[N]) or by arrayLength, and decoded from the bytes written. *)
(***************************************************************************)

MaxChars == 3

\* NUL, 'A', U+00FF, U+0100 and U+20AC as charCodeAt returns them
CharCodes == {0, 65, 255, 256, 8364}

Strings == UNION { [1..n -> CharCodes] : n \in 0..(MaxChars + 1) }

CharFields ==
    { InlineField("text", "char", n) : n \in 2..MaxChars }
    \cup { ArrayField("text", "char", n) : n \in 2..MaxChars }

\* encodeField(view, 0, field, str) on a buffer of the field's size, then
\* decodeField(view, 0, field) on what was written
EncodeString(field, str) ==
    LET written == EncodeField(field, Str(str))
        view == WriteAt(Zeros(GetFieldSize(field)), 0, written)
    IN
    /\ sent' = <<[kind |-> "string", field |-> field, value |-> str]>>
    /\ out' = [ok |-> TRUE, bytesWritten |-> Len(written), encoded |-> view,
               decoded |-> DecodeField(view, 0, field)]
    /\ UNCHANGED <<buffer, bufferStart, bufferEnd, registry, wire, results, emitted, calls>>

EncodeAnyString ==
    /\ sent = <<>>
    /\ \E field \in CharFields, str \in Strings : EncodeString(field, str)

NextChar == EncodeAnyString

SpecChar == InitEngine /\ [][NextChar]_vars

StringEncoded == Len(sent) = 1 /\ sent[1].kind = "string"

\* The number of elements of a char array field
CharCount(field) == IF field.arrayLength # 0 THEN field.arrayLength ELSE field.type.n

NulFree(str) == \A i \in 1..Len(str) : str[i] # 0

OneByteChars(str) == \A i \in 1..Len(str) : str[i] \in 1..255

\* The first min(Len(str), n) characters of str
Prefix(str, n) == SubSeq(str, 1, Min(Len(str), n))

\* The field occupies exactly N bytes, a string shorter than N is padded
\* with NUL bytes up to N, and decoding yields the characters before the
\* first NUL, at most N
CharFieldLayout ==
    LET n == CharCount(sent[1].field) IN
    /\ out.bytesWritten = n /\ Len(out.encoded) = n
    /\ out.decoded.bytesRead = n
    /\ \A i \in 1..n : i > Len(sent[1].value) => out.encoded[i] = 0
    /\ out.decoded.value.t = "string"
    /\ Len(out.decoded.value.v) <= n
    /\ LET k == Len(out.decoded.value.v) IN
          /\ \A i \in 1..k : out.encoded[i] # 0 /\ out.decoded.value.v[i] = out.encoded[i]
          /\ k < n => out.encoded[k + 1] = 0

\* C27 as stated: char[N] fields round-trip as strings: a shorter string is
\* padded with NUL bytes up to N, a longer one keeps only its first N
\* characters, decoding yields the characters before the first NUL, and
\* decode(encode(s)) equals the first min(length(s), N) characters of any
\* NUL-free string s.
C27_CharRoundTrip ==
    StringEncoded =>
        /\ CharFieldLayout
        /\ NulFree(sent[1].value) =>
              out.decoded.value = Str(Prefix(sent[1].value, CharCount(sent[1].field)))

\* C27 amended: the same, the round trip for every NUL-free string of
\* one-byte characters (character codes 1 to 255).
C27_OneByteCharRoundTrip ==
    StringEncoded =>
        /\ CharFieldLayout
        /\ OneByteChars(sent[1].value) =>
              /\ out.decoded.value = Str(Prefix(sent[1].value, CharCount(sent[1].field)))
              /\ out.encoded = Prefix(sent[1].value, CharCount(sent[1].field))
                                  \o Zeros(CharCount(sent[1].field) - Len(sent[1].value))

\* A string of one-byte characters one longer than its inline char[N] field,
\* holding U+00FF, came back as its first N characters.
C27_Witness ==
    /\ StringEncoded
    /\ sent[1].field.type.n = MaxChars
    /\ OneByteChars(sent[1].value)
    /\ Len(sent[1].value) = MaxChars + 1
    /\ sent[1].value[1] = 255
    /\ out.decoded.value = Str(SubSeq(sent[1].value, 1, MaxChars))

(***************************************************************************)
(* The catalog: register called up to MaxRegistered times on the registry  *)
(* of a newly constructed engine, with definitions that may repeat an id   *)
(* or a name.                                                              *)
(***************************************************************************)

MaxRegistered == 3

\* A constructed engine before loadDefinitions: the three maps empty
InitRegistry ==
    /\ buffer = NewStreamBuffer(InitialSize).buffer
    /\ bufferStart = 0
    /\ bufferEnd = 0
    /\ registry = EmptyRegistry
    /\ wire = <<>>
    /\ sent = <<>>
    /\ results = <<>>
    /\ emitted = <<>>
    /\ calls = 0
    /\ out = NoOutcome

RegisteredDefinitions ==
    { [id |-> id, name |-> name, fields |-> fields] :
        id \in {HEARTBEAT.id, MISSION_ACK.id},
        name \in {HEARTBEAT.name, MISSION_ACK.name},
        fields \in {HEARTBEAT.fields} }

RegisteredCrcExtras == {50, 153}

\* registry.register(def, crcExtra); sent keeps the calls made
RegisterCall(def, crcExtra) ==
    /\ Len(sent) < MaxRegistered
    /\ registry' = Register(registry, def, crcExtra)
    /\ sent' = Append(sent, [kind |-> "register", def |-> def, crcExtra |-> crcExtra])
    /\ UNCHANGED <<buffer, bufferStart, bufferEnd, wire, results, emitted, calls, out>>

RegisterAny ==
    \E def \in RegisteredDefinitions, crcExtra \in RegisteredCrcExtras :
        RegisterCall(def, crcExtra)

NextRegistry == RegisterAny

SpecRegistry == InitRegistry /\ [][NextRegistry]_vars

SendBeforeReset ==
    /\ sent = <<>>
    /\ \E m \in PartialMessages : Send(Addressed(m, 1, 1, 0))

\* The first k bytes of the link handed to parseBytes, the rest never arrives
FeedThenLose ==
    /\ calls = 0
    /\ Len(sent) = 1 /\ sent[1].kind = "frame"
    /\ \E k \in 1..(Len(wire) - 1) :
          /\ ParseBytes(SubSeq(wire, 1, k))
          /\ wire' = <<>>
          /\ UNCHANGED sent

\* parser.resetBuffer(); sent keeps the call
ResetCall ==
    /\ Len(sent) <= 1 /\ wire = <<>>
    /\ SetStreamBuffer(StreamReset(StreamBufferState))
    /\ sent' = Append(sent, [kind |-> "reset"])
    /\ UNCHANGED <<registry, wire, results, emitted, calls, out>>

SendAfterReset ==
    /\ Len(sent) >= 1 /\ sent[Len(sent)].kind = "reset"
    /\ \E m \in FollowerMessages : Send(Addressed(m, 1, 1, 1))

NextReset == SendBeforeReset \/ FeedThenLose \/ ResetCall \/ SendAfterReset \/ FeedAll

SpecReset == InitEngine /\ [][NextReset]_vars

ResetLast == Len(sent) >= 1 /\ sent[Len(sent)].kind = "reset"

FrameAfterReset ==
    /\ Len(sent) >= 2
    /\ sent[Len(sent) - 1].kind = "reset" /\ sent[Len(sent)].kind = "frame"

\* C29: reset_buffer clears the stream buffer: after it the live length is
\* 0, bytes buffered before the reset never appear in, or change, the
\* messages returned by later parse_bytes calls, and a complete valid frame
\* fed right after a reset yields exactly that one message.
C29_ResetClears ==
    /\ ResetLast => bufferEnd - bufferStart = 0 /\ GetContents(StreamBufferState) = <<>>
    /\ FrameAfterReset /\ wire # <<>> => bufferEnd - bufferStart = 0
    /\ FrameAfterReset /\ wire = <<>> =>
          /\ Len(results) = 1
          /\ IsMessageOf(results[1], Len(sent))
          /\ results[1].crc_ok
          /\ bufferEnd - bufferStart = 0

\* Part of a frame was buffered and nothing returned, the buffer was reset,
\* and the frame fed after it came back alone.
C29_Witness ==
    /\ Len(sent) = 3
    /\ sent[1].kind = "frame" /\ sent[2].kind = "reset" /\ sent[3].kind = "frame"
    /\ calls = 2 /\ wire = <<>>
    /\ Len(results) = 1 /\ results[1].crc_ok
    /\ results[1].sequence = 1
    /\ emitted = results

(***************************************************************************)
(* Consumption of junk and frame                                           *)
(***************************************************************************)

\* C30: consumption after an emitted frame: when parse_bytes emits a frame
\* that was preceded by junk bytes in the buffer, it consumes the junk and
\* the whole frame, so that no byte of the emitted frame, and nothing else
\* of what was fed, remains in the stream buffer.
C30_JunkAndFrameConsumed ==
    (/\ Len(sent) = 2 /\ sent[1].kind = "noise" /\ sent[2].kind = "frame"
     /\ wire = <<>> /\ calls = 1 /\ results # <<>>) =>
        /\ GetContents(StreamBufferState) = <<>>
        /\ bufferStart = bufferEnd

(***************************************************************************)
(* Emission count                                                          *)
(***************************************************************************)

\* C31: no duplicate emission: over any sequence of parse_bytes calls each
\* frame of the input stream is emitted at most once, whatever the length
\* of the junk that precedes it, so the number of messages returned never
\* exceeds the number of frames in the stream.
C31_NoDuplicateEmission == Len(emitted) <= Cardinality(Frames)

(***************************************************************************)
(* Chunking                                                                *)
(***************************************************************************)

\* Every byte written to the link so far, and the part of it handed to
\* parseBytes
Stream == Flatten([i \in 1..Len(sent) |-> sent[i].bytes])

Fed == SubSeq(Stream, 1, Len(Stream) - Len(wire))

\* C32: chunking independence: however the bytes fed so far were split into
\* chunks, the messages returned by the successive parse_bytes calls,
\* concatenated, and the bytes retained at the end are those of the split
\* into a single chunk.
C32_ChunkingIndependence ==
    calls >= 1 =>
        LET whole == ParseLoop(registry, Fed, 0, <<>>) IN
        /\ emitted = whole.results
        /\ GetContents(StreamBufferState) = SliceFrom(Fed, whole.offset)

(***************************************************************************)
(* Retained bytes.  Junk that holds magic bytes, frame-shaped junk and a   *)
(* frame are written to the link; the receiver hands the link to           *)
(* parseBytes one byte at a time, in chunks or whole, and may call         *)
(* resetBuffer in between.                                                 *)
(***************************************************************************)

JunkSegments ==
    { <<0, 66, 255>>,
      <<0, 0, 0, 0, 0, 0, 0, 0, 0>>,
      <<MAVLINK_V2_MAGIC>>,
      <<0, MAVLINK_V1_MAGIC, 20, 0>>,
      <<66, MAVLINK_V2_MAGIC, MAVLINK_V1_MAGIC, 1, 0, 1, 1, 7, 9, 9, 9>> }

SendJunk ==
    \E bytes \in JunkSegments :
        sent = <<>> /\ SendNoise(bytes)

SendFrameAfterJunk ==
    \E m \in FollowerMessages :
        /\ Len(sent) <= 1
        /\ \A i \in 1..Len(sent) : sent[i].kind = "noise"
        /\ Send(Addressed(m, 1, 1, 0))

\* resetBuffer called while bytes are retained; the call is noted in out
Dropped == [ok |-> FALSE, error |-> "resetBuffer"]

DropRetained ==
    /\ bufferEnd > bufferStart /\ wire # <<>> /\ out # Dropped
    /\ SetStreamBuffer(StreamReset(StreamBufferState))
    /\ out' = Dropped
    /\ UNCHANGED <<registry, wire, sent, results, emitted, calls>>

\* The receiver reads the link one byte at a time, or ChunkSize bytes at a
\* time, or all that is on it
ReadByte == Len(Fed) = calls /\ FeedByte

ReadChunk == Len(Fed) = calls * ChunkSize /\ FeedChunk

NextRetain ==
    SendJunk \/ SendFrameAfterJunk \/ ReadByte \/ ReadChunk \/ FeedAll \/ DropRetained

SpecRetain == InitEngine /\ [][NextRetain]_vars

Retained == GetContents(StreamBufferState)

\* The bytes begin with a magic byte and are fewer than the frame that the
\* header they begin announces: fewer than the header and the checksum of
\* the version, or fewer than header, payload of the length byte and checksum
BeginsIncompleteFrame(bytes) ==
    /\ bytes # <<>>
    /\ bytes[1] \in {MAVLINK_V1_MAGIC, MAVLINK_V2_MAGIC}
    /\ \/ Len(bytes) < HeaderSizeOf(bytes) + MAVLINK_CHECKSUM_SIZE
       \/ Len(bytes) < HeaderSizeOf(bytes) + bytes[LengthPosition] + MAVLINK_CHECKSUM_SIZE

\* C33: retained-buffer invariant: whenever parse_bytes has returned, the
\* bytes left in the stream buffer are none, or fewer than 8, or begin with
\* the magic byte of a frame that is still incomplete; so the retained
\* length stays below 280 however much noise was fed.
C33_RetainedBufferInvariant ==
    /\ \/ Retained = <<>>
       \/ Len(Retained) < 8
       \/ BeginsIncompleteFrame(Retained)
    /\ Len(Retained) < 280

\* A call has returned with 8 bytes or more retained, after junk was fed
C33_Witness ==
    /\ calls >= 1
    /\ Len(Retained) >= 8
    /\ Len(sent) >= 1 /\ sent[1].kind = "noise"

(***************************************************************************)
(* The stream buffer on its own: append, consume and reset called in any   *)
(* order, each call logged in sent with the buffer it found and the        *)
(* contents it left.                                                       *)
(***************************************************************************)

MaxOps == 5

AppendLengths == {1, 5, 13, 30, 50}

ConsumeCounts(sb) == {1, 5, sb.bufferEnd - sb.bufferStart} \cap 1..(sb.bufferEnd - sb.bufferStart)

\* Bytes that differ from call to call and from position to position
DataOf(n) == [i \in 1..n |-> (50 * Len(sent) + i) % 256]

Found(sb) ==
    [start |-> sb.bufferStart, end |-> sb.bufferEnd, capacity |-> Len(sb.buffer),
     before |-> GetContents(sb)]

Logged(entry, sb) ==
    /\ SetStreamBuffer(sb)
    /\ sent' = Append(sent, entry @@ [after |-> GetContents(sb), grownTo |-> Len(sb.buffer)])
    /\ UNCHANGED <<registry, wire, results, emitted, calls, out>>

AppendCall ==
    \E n \in AppendLengths :
        /\ Len(sent) < MaxOps
        /\ Logged([kind |-> "append", data |-> DataOf(n)] @@ Found(StreamBufferState),
                  StreamAppend(StreamBufferState, DataOf(n)))

ConsumeCall ==
    \E n \in ConsumeCounts(StreamBufferState) :
        /\ Len(sent) < MaxOps
        /\ Logged([kind |-> "consume", bytes |-> n] @@ Found(StreamBufferState),
                  StreamConsume(StreamBufferState, n))

ClearCall ==
    /\ Len(sent) < MaxOps
    /\ bufferEnd > 0
    /\ Logged([kind |-> "reset"] @@ Found(StreamBufferState), StreamReset(StreamBufferState))

NextBuffer == AppendCall \/ ConsumeCall \/ ClearCall

SpecBuffer == InitEngine /\ [][NextBuffer]_vars

\* The path of an append, from the buffer it found
Reallocates(e) == (e.end - e.start) + Len(e.data) > e.capacity

Compacts(e) == ~Reallocates(e) /\ e.end + Len(e.data) > e.capacity

InPlace(e) == ~Reallocates(e) /\ ~Compacts(e)

AppendsOf(path(_)) == {i \in 1..Len(sent) : sent[i].kind = "append" /\ path(sent[i])}

\* C34: the stream buffer is a FIFO of bytes: the contents after append(d)
\* are the contents before the call followed by d, whether append wrote in
\* place, compacted to index 0 or reallocated to max(2 * capacity,
\* required), and consume(n) with n no more than the live length removes
\* exactly the first n bytes of the contents.
C34_BufferFifo ==
    /\ \A i \in 1..Len(sent) :
          LET e == sent[i] IN
          /\ e.kind = "append" =>
                /\ e.after = e.before \o e.data
                /\ e.grownTo = IF Reallocates(e)
                               THEN Max(2 * e.capacity, Len(e.before) + Len(e.data))
                               ELSE e.capacity
          /\ e.kind = "consume" =>
                e.after = SubSeq(e.before, e.bytes + 1, Len(e.before))
    /\ sent # <<>> => GetContents(StreamBufferState) = sent[Len(sent)].after

\* Appends on each of the three paths onto live bytes, and a consume that
\* leaves bytes behind, have happened
C34_Witness ==
    /\ \E i \in AppendsOf(Reallocates) : sent[i].before # <<>>
    /\ \E i \in AppendsOf(Compacts) : sent[i].before # <<>>
    /\ \E i \in AppendsOf(InPlace) : sent[i].before # <<>>
    /\ \E i \in 1..Len(sent) : sent[i].kind = "consume" /\ sent[i].after # <<>>

(***************************************************************************)
(* Indices of the stream buffer                                            *)
(***************************************************************************)

\* The chunk handed to parseBytes in a step that calls it
ChunkFed == SubSeq(wire, 1, Len(wire) - Len(wire'))

IndexInvariant ==
    /\ 0 <= bufferStart /\ bufferStart <= bufferEnd /\ bufferEnd <= Len(buffer)
    /\ bufferStart = bufferEnd => bufferStart = 0

ConsumeWithinLive ==
    calls' = calls + 1 =>
        LET appended == StreamAppend(StreamBufferState, ChunkFed)
            scan == ParseLoop(registry, GetContents(appended), 0, <<>>)
        IN  /\ scan.offset <= appended.bufferEnd - appended.bufferStart
            /\ bufferEnd' - bufferStart' = Len(GetContents(appended)) - scan.offset

\* C35: stream buffer index invariant: in every state reached through
\* parse_bytes and reset_buffer, 0 <= start <= end <= capacity and start =
\* end only with both 0; the capacity never decreases; and parse_bytes never
\* calls consume with more bytes than the live length.
C35_IndexInvariant ==
    /\ []IndexInvariant
    /\ [][Len(buffer') >= Len(buffer) /\ ConsumeWithinLive]_vars

\* resetBuffer was called, the buffer has grown since, and the call of
\* parseBytes that returned a message consumed every byte
C35_Witness ==
    /\ Len(buffer) > InitialSize
    /\ out = Dropped
    /\ results # <<>>
    /\ bufferStart = 0 /\ bufferEnd = 0

(***************************************************************************)
(* Termination of the scan                                                 *)
(***************************************************************************)

\* Mutant of ScanTrace: the framer is called once more after it reported no
\* progress
RECURSIVE ScanTraceMutRetry(_, _, _, _)
ScanTraceMutRetry(reg, bufferData, offset, trace) ==
    IF offset >= Len(bufferData) THEN trace
    ELSE LET frameResult == ParseFrame(SliceFrom(bufferData, offset), reg.crcExtraTable)
             entry == [offset |-> offset, frame |-> frameResult.frame # NoFrame,
                       bytesConsumed |-> frameResult.bytesConsumed]
         IN  IF frameResult.frame # NoFrame \/ frameResult.bytesConsumed > 0
             THEN ScanTraceMutRetry(reg, bufferData, offset + frameResult.bytesConsumed,
                                    Append(trace, entry))
             ELSE Append(Append(trace, entry), entry)

\* The while loop of parseBytes once more, returning the framer calls it
\* makes: for each the offset it was made at, whether it returned a frame,
\* and the bytesConsumed it returned
RECURSIVE ScanTrace(_, _, _, _)
ScanTrace(reg, bufferData, offset, trace) ==
    IF offset >= Len(bufferData) THEN trace
    ELSE LET frameResult == ParseFrame(SliceFrom(bufferData, offset), reg.crcExtraTable)
             entry == [offset |-> offset, frame |-> frameResult.frame # NoFrame,
                       bytesConsumed |-> frameResult.bytesConsumed]
         IN  IF frameResult.frame # NoFrame \/ frameResult.bytesConsumed > 0
             THEN ScanTrace(reg, bufferData, offset + frameResult.bytesConsumed,
                            Append(trace, entry))
             ELSE Append(trace, entry)

\* Every framer call but the last advances the offset by one byte or more;
\* the last one stops the loop or reaches the end of the buffer
Progresses(trace, size) ==
    /\ \A i \in 1..(Len(trace) - 1) :
          /\ trace[i].frame \/ trace[i].bytesConsumed > 0
          /\ trace[i + 1].offset >= trace[i].offset + 1
    /\ trace # <<>> =>
          LET last == trace[Len(trace)] IN
          \/ ~last.frame /\ last.bytesConsumed = 0
          \/ last.bytesConsumed >= 1 /\ last.offset + last.bytesConsumed >= size

\* C36: parse_bytes terminates on every input and buffer state: each
\* iteration of its loop stops or advances the scan offset by at least one
\* byte, so it makes no more framer calls than there are buffered bytes, and
\* the offset it ends at is the one it consumes.
C36_ScanTerminates ==
    [][calls' = calls + 1 =>
          LET bufferData == GetContents(StreamAppend(StreamBufferState, ChunkFed))
              trace == ScanTrace(registry, bufferData, 0, <<>>)
          IN  /\ Progresses(trace, Len(bufferData))
              /\ Len(trace) <= Len(bufferData)
              /\ Len(SelectSeq(trace, LAMBDA e : e.frame)) = Len(results')]_vars

\* One call of parseBytes on junk followed by a frame returned the message
\* and called the framer again on what was left
C36_Witness ==
    /\ calls = 1
    /\ results # <<>>
    /\ sent[1].kind = "noise"
    /\ Len(ScanTrace(registry, Fed, 0, <<>>)) >= 2

(***************************************************************************)
(* Sender calls between receiver calls.  Frames are written to the link;   *)
(* the receiver reads it ChunkSize bytes at a time; between its reads the  *)
(* same DialectParser is asked to serialize and to complete messages whose *)
(* results go nowhere.                                                     *)
(***************************************************************************)

InsertedMessages ==
    { RawMessage("HEARTBEAT", Obj([type |-> Num(6)])),
      RawMessage("NOT_A_MESSAGE", Obj(EmptyObject)),
      RawMessage("MISSION_ACK", Null) }

\* Mutant of InsertSerialize: the frame built is appended to the parser's
\* own stream buffer
InsertSerializeMutBuffers(m) ==
    LET r == SerializeMessage(registry, m) IN
    /\ out' = [call |-> "serializeMessage", input |-> m, outcome |-> r]
    /\ IF r.ok
       THEN SetStreamBuffer(StreamAppend(StreamBufferState, r.bytes))
       ELSE UNCHANGED <<buffer, bufferStart, bufferEnd>>
    /\ UNCHANGED <<registry, wire, sent, results, emitted, calls>>

\* parser.serializeMessage(m), the frame or the error it returns kept in out
InsertSerialize(m) ==
    LET r == SerializeMessage(registry, m) IN
    /\ out' = [call |-> "serializeMessage", input |-> m, outcome |-> r]
    /\ UNCHANGED <<buffer, bufferStart, bufferEnd, registry, wire, sent, results, emitted,
                   calls>>

InsertSerializeAny == \E m \in InsertedMessages : InsertSerialize(m)

InsertCompleteAny == \E m \in InsertedMessages : CompleteCall(m)

WriteFrames ==
    \E m \in FollowerMessages :
        /\ calls = 0
        /\ Len(sent) < MaxFrames
        /\ Send(Addressed(m, 1, 1, Len(sent)))

ReadRest == Len(wire) <= ChunkSize /\ Len(Fed) = calls * ChunkSize /\ FeedAll

NextInsert == WriteFrames \/ InsertSerializeAny \/ InsertCompleteAny \/ ReadChunk \/ ReadRest

SpecInsert == InitEngine /\ [][NextInsert]_vars

\* parseBytes called on the bytes, ChunkSize at a time, and nothing else
\* called in between: the stream buffer, the messages of all the calls and
\* those of the last one
RECURSIVE ParseRun(_, _, _)
ParseRun(reg, bytes, run) ==
    IF bytes = <<>> THEN run
    ELSE LET k == Min(ChunkSize, Len(bytes))
             appended == StreamAppend(run.sb, SubSeq(bytes, 1, k))
             scan == ParseLoop(reg, GetContents(appended), 0, <<>>)
         IN  ParseRun(reg, SubSeq(bytes, k + 1, Len(bytes)),
                      [sb |-> StreamConsume(appended, scan.offset),
                       emitted |-> run.emitted \o scan.results,
                       results |-> scan.results])

Undisturbed ==
    ParseRun(LoadedRegistry, Fed,
             [sb |-> NewStreamBuffer(InitialSize), emitted |-> <<>>, results |-> <<>>])

InsertedCall == out # NoOutcome /\ "call" \in DOMAIN out

\* C37: serialize_message and complete_message do not touch the receive
\* path: with any number of such calls, successful or failing, made between
\* the parse_bytes calls, the messages parse_bytes returns and the bytes
\* retained in the stream buffer are those of the same parse_bytes calls
\* with nothing in between.
C37_SenderLeavesReceiver ==
    /\ emitted = Undisturbed.emitted
    /\ results = Undisturbed.results
    /\ StreamBufferState = Undisturbed.sb
    /\ registry = LoadedRegistry

\* A successful serializeMessage call was the last thing done after a
\* parseBytes call that returned a message and left bytes in the buffer
C37_Witness ==
    /\ InsertedCall
    /\ out.call = "serializeMessage" /\ out.outcome.ok
    /\ results # <<>>
    /\ bufferEnd > bufferStart

(***************************************************************************)
(* The CRC engine called on its own, once, on one of the inputs            *)
(***************************************************************************)

MaxCrcBytes == 3

CrcByteValues == {0, 1, 128, 255}

CrcExtras == {0, 50, 153, 255, 300}

\* Every sequence of up to MaxCrcBytes of the byte values, and the ASCII
\* digits 1 to 9
CrcInputs ==
    UNION { [1..n -> CrcByteValues] : n \in 0..MaxCrcBytes }
    \cup { [i \in 1..9 |-> 48 + i] }

\* Checksums received: the right one, the right one with its lowest or its
\* highest bit inverted, and the two ends of the range
ReceivedFor(data, crcExtra) ==
    LET crc == Calculate(data, crcExtra) IN
    {crc, BitXor(crc, 1), BitXor(crc, 32768), 0, 65535}

CalculateCall ==
    \E data \in CrcInputs, crcExtra \in CrcExtras :
        /\ out = NoOutcome
        /\ out' = [call |-> "calculate", data |-> data, crcExtra |-> crcExtra,
                   crc |-> Calculate(data, crcExtra)]
        /\ UNCHANGED <<buffer, bufferStart, bufferEnd, registry, wire, sent, results,
                       emitted, calls>>

ValidateCall ==
    \E data \in CrcInputs, crcExtra \in CrcExtras :
        \E received \in ReceivedFor(data, crcExtra) :
            /\ out = NoOutcome
            /\ out' = [call |-> "validate", data |-> data, crcExtra |-> crcExtra,
                       received |-> received, valid |-> Validate(data, crcExtra, received)]
            /\ UNCHANGED <<buffer, bufferStart, bufferEnd, registry, wire, sent, results,
                           emitted, calls>>

NextChecksum == CalculateCall \/ ValidateCall

SpecChecksum == InitEngine /\ [][NextChecksum]_vars

\* The step of the recurrence as the specification writes it, in three lines
NibbleSwapStep(b, crc) ==
    LET t1 == BitAnd(BitXor(b, BitAnd(crc, 255)), 255)
        t2 == BitAnd(BitXor(t1, t1 * 16), 255)
    IN  BitAnd(BitXor(BitXor(BitXor(crc \div 256, t2 * 256), t2 * 8), t2 \div 16), 65535)

\* The step applied to each of the bytes in turn
RECURSIVE StepThrough(_, _)
StepThrough(bytes, crc) ==
    IF bytes = <<>> THEN crc
    ELSE StepThrough(Tail(bytes), NibbleSwapStep(Head(bytes), crc))

CrcCalled(name) == "call" \in DOMAIN out /\ out.call = name

\* C38: CRC engine: calculate(bytes, crc_extra) is the value obtained by
\* starting from 0xFFFF and applying the three-line step to each byte and
\* then once more to crc_extra; it lies in 0..0xFFFF; and validate(bytes,
\* crc_extra, received) is true exactly when received equals
\* calculate(bytes, crc_extra).
C38_CrcEngine ==
    /\ CrcCalled("calculate") =>
          /\ out.crc = StepThrough(Append(out.data, out.crcExtra), 65535)
          /\ out.crc \in 0..65535
    /\ CrcCalled("validate") =>
          (out.valid <=> out.received = StepThrough(Append(out.data, out.crcExtra), 65535))

\* calculate was called on the digits 1 to 9, whose checksum before the
\* round for CRC_EXTRA is the check value 0x6F91 of CRC-16/MCRF4XX
C38_Witness ==
    /\ CrcCalled("calculate")
    /\ Len(out.data) = 9
    /\ out.crcExtra = 50
    /\ CrcBytes(out.data, 0, X25_INIT_CRC) = 28561
    /\ out.crc = NibbleSwapStep(50, 28561)

====
